---- MODULE Spec2Model ----
(***************************************************************************)
(* GoldfishRouter (src/src/index.js): per-actor-key queues, admission,     *)
(* the drain scheduler, request/response correlation and metadata.         *)
(*                                                                         *)
(* The Router runs on one logical thread; a handler runs without           *)
(* interruption between two awaits.  Every action below is one such run:   *)
(* from the arrival of an event (a route request, a timer, the return of   *)
(* an awaited call) to the next await of the coroutine that was resumed,   *)
(* promise continuations (microtasks) included.                            *)
(*                                                                         *)
(* The sequential code of a run is written as operators on a record `s`    *)
(* holding the Router's fields; an action installs the record it computes. *)
(***************************************************************************)
EXTENDS Integers, Sequences, FiniteSets, TLC

\* ---------------------------------------------------------------- bounds

\* Number of route requests sent to the Router in one behaviour of Spec.
MaxCalls == 3

\* Number of route requests in one behaviour of SpecOneKey, where all of them
\* name the same actor key: one more than fills the queue and refills it.
MaxCallsOneKey == 4

\* policy.queueLimit.  The source sets 100 (index.js:216); the Router reads
\* it only in the comparison queue.length >= queueLimit, so the model scales
\* it down to make the admission limit reachable within MaxCalls.
QueueLimit == 2

\* Number of status and admin-reset requests in one behaviour of SpecAdmin.
MaxAdminOps == 2

\* Number of requests one activation of a GoldfishActor receives.
MaxRequests == 3

\* ------------------------------------------------------ program constants

MaxPayloadBytes == 65536

TimeoutMs == 30000

\* ------------------------------------------------------------ input sets

\* The Router instance of one actor type receives the requests of that type.
ActorTypes == {"room"}

ActorIds == {"r1", "r2"}

\* actorKey = `${actorType}:${actorId}`
ActorKey(actorType, actorId) == <<actorType, actorId>>

\* A payload is represented by its truthiness and the length of its JSON
\* text.  Spec sends a falsy payload (null); SpecOneKey sends payloads of
\* exactly the limit and of a byte over it.
Payloads ==
  { [truthy |-> FALSE, len |-> 4] }

PayloadsOneKey ==
  { [truthy |-> TRUE,  len |-> MaxPayloadBytes],
    [truthy |-> TRUE,  len |-> MaxPayloadBytes + 1] }

\* payload ? JSON.stringify(payload).length : 0
PayloadSize(payload) == IF payload.truthy THEN payload.len ELSE 0

\* nextPolicy.mode values an actor may answer; "later" stands for any
\* value the Router does not recognise.
Modes == {"immediate", "wait", "reject", "later"}

\* spawn lists an actor may answer
SpawnLists == {<<>>, <<"r2">>}

\* What the addressed invoke call can come back with: an exception, a
\* non-success status, or a 200 response carrying an envelope.
Envelopes == [mode : Modes, spawn : SpawnLists]

NoBody == [mode |-> "none", spawn |-> <<>>]

\* The Router of the teacher type, as SpecAdmin runs it: route calls name
\* teacher:t1, whose actor may answer with the spawn hint q1.
AdminIds == {"t1"}

\* ... and as SpecReset runs it: route calls name teacher:q1 or teacher:t1.
ResetIds == {"q1", "t1"}

AdminEnvelopes == [mode : {"immediate"}, spawn : {<<>>, <<"q1">>}]

\* actorTypePrefix values.  <<>> is the empty string, <<t>> is "t:" and
\* <<t, i>> is the whole key "t:i".
Prefixes == {<<>>, <<"teacher">>, <<"question">>, <<"teacher", "q1">>}

NoPrefix == <<"none", "none", "none">>

\* actorKey.startsWith(prefix), for the prefixes above and actor ids none of
\* which begins another
StartsWith(key, prefix) ==
  \/ Len(prefix) = 0
  \/ Len(prefix) = 1 /\ key[1] = prefix[1]
  \/ Len(prefix) = 2 /\ key[1] = prefix[1] /\ key[2] = prefix[2]

\* policy: null of a status entry built from storage
NoPolicy == [queueLimit |-> 0, timeoutMs |-> 0, maxPayloadBytes |-> 0]

NoSnap == [busy |-> FALSE, queueLength |-> 0]

NoMessage == [messageId |-> 0, payload |-> [truthy |-> FALSE, len |-> 4]]

\* ----------------------------------------------------------------- state

VARIABLES
  actors,          \* this.actors: actorKey -> [busy, queue, policy]
  order,           \* insertion order of this.actors (Map iteration order)
  pendingResults,  \* this.pendingResults: the messageIds that have an entry
  isDraining,      \* this.isDraining
  drains,          \* the suspended drainLoop coroutines
  inflight,        \* invoke calls issued and not yet returned
  timers,          \* the armed setTimeout closures: [messageId, actorKey]
  meta,            \* durable storage: actorKey -> the "meta:" record
  nCalls,          \* history: the number of route requests received
  replies,         \* history: route call -> the response sent to its caller
  invoked,         \* history: the (actorKey, messageId) an invoke was issued for
  cycle,           \* history: parity of the number of drain cycles started
  paused,          \* history: the keys whose latest continuation was wait
                   \* and that have had a message queued ever since
  thrown,          \* history: the queued messages for which an invoke call
                   \* has thrown, as InvokeThrowsNoted writes them
  admin,           \* the suspended handleStatus and admin-reset coroutines
  statusOut,       \* history: the latest response of handleStatus
  resetOut,        \* history: the latest response of admin-reset
  lastReset,       \* history: the prefix of the admin-reset that returned in
                   \* the latest step, if one did
  nAdmin,          \* history: the number of status and admin-reset requests
  \* one GoldfishActor (src/actor.js) with the objects it refers to
  memory,          \* this.memory: a reference into heap, 0 for null
  initialized,     \* this.initialized
  actorStorage,    \* the value under "memory" in the actor's durable storage
  heap,            \* the memory objects made in this activation, by reference
  requests,        \* the suspended /invoke and /status requests of the actor
  nRequests,       \* history: the number of requests received
  nReads,          \* history: the number of storage.get("memory") calls
  lastPut,         \* history: the latest completed storage.put("memory", ...)
  lastStatus,      \* history: the latest response of the actor's /status
  actorReset       \* history: the number of requests received when the
                   \* latest /admin-reset of the actor returned (-1 before)
                   \* and the marks that memory and storage held then

vars ==
  <<actors, order, pendingResults, isDraining, drains, inflight, timers,
    meta, nCalls, replies, invoked, cycle, paused, thrown,
    admin, statusOut, resetOut, lastReset, nAdmin,
    memory, initialized, actorStorage, heap, requests, nRequests, nReads,
    lastPut, lastStatus, actorReset>>

actorVars ==
  <<memory, initialized, actorStorage, heap, requests, nRequests, nReads,
    lastPut, lastStatus, actorReset>>

St ==
  [actors |-> actors, order |-> order, pendingResults |-> pendingResults,
   isDraining |-> isDraining, drains |-> drains, inflight |-> inflight,
   timers |-> timers, meta |-> meta, nCalls |-> nCalls, replies |-> replies,
   invoked |-> invoked, cycle |-> cycle, paused |-> paused,
   thrown |-> thrown]

InstallRouter(s) ==
  /\ actors' = s.actors
  /\ order' = s.order
  /\ pendingResults' = s.pendingResults
  /\ isDraining' = s.isDraining
  /\ drains' = s.drains
  /\ inflight' = s.inflight
  /\ timers' = s.timers
  /\ meta' = s.meta
  /\ nCalls' = s.nCalls
  /\ replies' = s.replies
  /\ invoked' = s.invoked
  /\ cycle' = s.cycle
  /\ paused' = s.paused
  /\ thrown' = {id \in s.thrown :
                  \E key \in DOMAIN s.actors :
                    \E i \in 1..Len(s.actors[key].queue) :
                      s.actors[key].queue[i].messageId = id}
  /\ UNCHANGED <<admin, statusOut, resetOut, nAdmin>>
  /\ lastReset' = NoPrefix

Install(s) == InstallRouter(s) /\ UNCHANGED actorVars

EmptyMap == [k \in {} |-> 0]

NoStatus == [prefix |-> NoPrefix, afterReset |-> NoPrefix, actors |-> EmptyMap]

NoReset == [prefix |-> NoPrefix, cleared |-> {}, requested |-> {}]

\* storage.get("memory") of a key never written: undefined
NoMemory == [present |-> FALSE, marks |-> {}]

NoPut == [by |-> 0, marks |-> {}]

\* the Router after its constructor, its storage empty
RouterInit ==
  /\ actors = EmptyMap
  /\ order = <<>>
  /\ pendingResults = {}
  /\ isDraining = FALSE
  /\ drains = {}
  /\ inflight = <<>>
  /\ timers = {}
  /\ meta = EmptyMap
  /\ nCalls = 0
  /\ replies = EmptyMap
  /\ invoked = {}
  /\ cycle = 0
  /\ paused = {}
  /\ thrown = {}
  /\ admin = {}
  /\ statusOut = NoStatus
  /\ resetOut = NoReset
  /\ lastReset = NoPrefix
  /\ nAdmin = 0

\* the actor after its constructor, its storage as earlier activations left it
ActorInit(stored) ==
  /\ memory = 0
  /\ initialized = FALSE
  /\ actorStorage = stored
  /\ heap = <<>>
  /\ requests = {}
  /\ nRequests = 0
  /\ nReads = 0
  /\ lastPut = NoPut
  /\ lastStatus = NoPut
  /\ actorReset = [at |-> -1, marks |-> {}]

Init == RouterInit /\ ActorInit(NoMemory)

\* --------------------------------------------------------------- helpers

\* policy literal of a lazily created ActorQueueState
DefaultPolicy ==
  [queueLimit |-> QueueLimit, timeoutMs |-> TimeoutMs,
   maxPayloadBytes |-> MaxPayloadBytes]

\* the ActorQueueState literal: idle, empty queue
NewActorState(policy) == [busy |-> FALSE, queue |-> <<>>, policy |-> policy]

\* this.actors.set(key, state) for a key the Map does not hold yet
SetActor(s, key, policy) ==
  [s EXCEPT !.actors = (key :> NewActorState(policy)) @@ @,
            !.order = Append(@, key)]

\* Array.prototype.shift: removes the first element, nothing on an empty array
Shift(q) == IF Len(q) = 0 THEN q ELSE Tail(q)

\* position of a key in the Map's iteration order
IndexOf(seq, key) == CHOOSE i \in 1..Len(seq) : seq[i] = key

\* a sequence without its first occurrence of e
RemoveFirst(seq, e) ==
  IF \E i \in 1..Len(seq) : seq[i] = e
  THEN LET i == CHOOSE j \in 1..Len(seq) :
                  seq[j] = e /\ \A h \in 1..(j - 1) : seq[h] # e
       IN  SubSeq(seq, 1, i - 1) \o SubSeq(seq, i + 1, Len(seq))
  ELSE seq

\* the route call c has been answered
Replied(s, c) == c \in DOMAIN s.replies

\* a Response of handleRoute: the HTTP status, the error text ("none" with
\* ok: true) and, with ok: true, the invocation whose result it carries.
\* For the record it also holds the key the request named and, when the
\* request was answered at admission, the payload size computed for it
\* (-1 when it was answered later).
Reply(status, error, result, key, size) ==
  [status |-> status, error |-> error, result |-> result, actorKey |-> key,
   size |-> size]

\* handleRoute's race: Promise.race settles once, with the first of the
\* result promise and the timeout promise; the success path clears the timer,
\* the catch path does not.
Settle(s, c, reply) ==
  IF Replied(s, c) THEN s
  ELSE [s EXCEPT !.replies = (c :> reply) @@ @,
                 !.timers = IF reply.status = 200
                            THEN {tm \in @ : tm.messageId # c} ELSE @]

\* const pending = this.pendingResults.get(id);
\* if (pending) { pending.reject(new Error(error)); this.pendingResults.delete(id) }
RejectPending(s, id, key, error) ==
  IF id \in s.pendingResults
  THEN [Settle(s, id, Reply(504, error, 0, key, -1)) EXCEPT
          !.pendingResults = @ \ {id}]
  ELSE s

\* ResolvePending that leaves the entry in the table
ResolvePendingKeepsEntry(s, id, key, result) ==
  IF id \in s.pendingResults
  THEN Settle(s, id, Reply(200, "none", result, key, -1))
  ELSE s

\* ResolvePending handing the result to the oldest entry of the table
ResolvePendingOldest(s, id, key, result) ==
  IF s.pendingResults # {}
  THEN LET p == CHOOSE x \in s.pendingResults :
                  \A y \in s.pendingResults : x <= y
       IN  [Settle(s, p, Reply(200, "none", result, key, -1)) EXCEPT
              !.pendingResults = @ \ {p}]
  ELSE s

\* if (pending) { pending.resolve({result, actorKey}); this.pendingResults.delete(id) }
\* The result of an invocation is represented by the message it was made for.
ResolvePending(s, id, key, result) ==
  IF id \in s.pendingResults
  THEN [Settle(s, id, Reply(200, "none", result, key, -1)) EXCEPT
          !.pendingResults = @ \ {id}]
  ELSE s

\* ------------------------------------------------------- drain scheduler

\* a suspended drainLoop coroutine: where it awaits (pc), the key it is
\* processing, the head message it captured, and what it carries across
\* the await: the response it is parsing, or the snapshot it is writing and
\* the way it left the while loop ("empty", "notok", "wait", "reject")
Drain(pc, key, message, body, snap, exit) ==
  [pc |-> pc, actorKey |-> key, message |-> message, body |-> body,
   snap |-> snap, exit |-> exit]

\* hasPendingWork
HasPendingWork(s) ==
  \E key \in DOMAIN s.actors :
    ~s.actors[key].busy /\ Len(s.actors[key].queue) > 0

\* persistActorState up to its await: the meta record is built from the
\* live state, then storage.put is awaited
PersistActorState(s, key, exit) ==
  [s EXCEPT !.drains = @ \cup
     {Drain("persist", key, NoMessage, NoBody,
            [busy |-> s.actors[key].busy,
             queueLength |-> Len(s.actors[key].queue)], exit)}]

\* IssueFetch with the await forgotten: the call is issued, the promise is
\* taken for the response (resp.ok is undefined), and the loop goes on
IssueFetchNoAwait(s, key) ==
  LET message == Head(s.actors[key].queue)
      s1 == [s EXCEPT !.inflight = Append(@, [actorKey |-> key,
                                              messageId |-> message.messageId]),
                      !.invoked = @ \cup {[actorKey |-> key,
                                            messageId |-> message.messageId]}]
      s2 == RejectPending(s1, message.messageId, key, "Actor DO error")
  IN  PersistActorState([s2 EXCEPT !.actors[key].queue = Shift(@)], key, "notok")

\* const message = queue[0]; const resp = await actorStub.fetch(.../invoke)
IssueFetch(s, key) ==
  LET message == Head(s.actors[key].queue) IN
  [s EXCEPT !.drains = @ \cup {Drain("fetch", key, message, NoBody, NoSnap, "none")},
            !.inflight = Append(@, [actorKey |-> key,
                                    messageId |-> message.messageId]),
            !.invoked = @ \cup {[actorKey |-> key,
                                  messageId |-> message.messageId]}]

\* one turn of processActorQueue's while loop up to its await: with a
\* non-empty queue the head is taken (not removed) and the invoke call is
\* issued; with an empty queue the loop ends and the metadata is persisted
WhileQueue(s, key) ==
  IF Len(s.actors[key].queue) > 0 THEN IssueFetch(s, key)
  ELSE PersistActorState(s, key, "empty")

RECURSIVE DrainLoop(_, _)
RECURSIVE TriggerDraining(_)

\* triggerDraining without its isDraining test
TriggerDrainingAlways(s) ==
  DrainLoop([s EXCEPT !.isDraining = TRUE, !.cycle = 1 - @], 1)

\* processActorQueue from its entry to its first await; a busy key returns
\* at once to drainLoop, which goes on with the key after position i
ProcessActorQueue(s, i) ==
  LET key == s.order[i] IN
  IF s.actors[key].busy THEN DrainLoop(s, i + 1)
  ELSE WhileQueue([s EXCEPT !.actors[key].busy = TRUE], key)

\* the .finally of triggerDraining's promise chain
DrainFinally(s) ==
  LET s1 == [s EXCEPT !.isDraining = FALSE] IN
  IF HasPendingWork(s1) THEN TriggerDraining(s1) ELSE s1

RECURSIVE DrainLoopNoAwait(_, _)

\* drainLoop calling processActorQueue without awaiting it: every idle,
\* non-empty key is started in the same turn
DrainLoopNoAwait(s, i) ==
  IF i > Len(s.order) THEN DrainFinally(s)
  ELSE LET key == s.order[i] IN
       IF s.actors[key].busy \/ Len(s.actors[key].queue) = 0
       THEN DrainLoopNoAwait(s, i + 1)
       ELSE DrainLoopNoAwait(
              WhileQueue([s EXCEPT !.actors[key].busy = TRUE], key), i + 1)

\* drainLoop from position i of the Map's iteration: busy and empty keys are
\* skipped; keys added to the Map during the iteration are visited too
DrainLoop(s, i) ==
  IF i > Len(s.order) THEN DrainFinally(s)
  ELSE LET key == s.order[i] IN
       IF s.actors[key].busy \/ Len(s.actors[key].queue) = 0
       THEN DrainLoop(s, i + 1)
       ELSE ProcessActorQueue(s, i)

\* triggerDraining
TriggerDraining(s) ==
  IF s.isDraining THEN s
  ELSE DrainLoop([s EXCEPT !.isDraining = TRUE, !.cycle = 1 - @], 1)

\* processActorQueue without the finally
ReleaseBusyNever(s, key) == s

\* finally { actorState.busy = false }
ReleaseBusy(s, key) == [s EXCEPT !.actors[key].busy = FALSE]

\* ----------------------------------------------------------- handleRoute

\* crypto.randomUUID(): a fresh id; the model uses the ordinal of the route
\* call, which no other call has
NewMessageId(s) == s.nCalls

\* PayloadTooLarge with the limit off by one
PayloadTooLargeOffByOne(payloadSize, actorState) ==
  payloadSize > actorState.policy.maxPayloadBytes + 1

\* if (payloadSize > actorState.policy.maxPayloadBytes)
PayloadTooLarge(payloadSize, actorState) ==
  payloadSize > actorState.policy.maxPayloadBytes

\* QueueIsFull refusing one message early
QueueIsFullEarly(actorState) ==
  Len(actorState.queue) >= actorState.policy.queueLimit - 1

\* QueueIsFull comparing with > in place of >=
QueueIsFullLate(actorState) ==
  Len(actorState.queue) > actorState.policy.queueLimit

\* QueueIsFull not counting the head while it is being invoked
QueueIsFullBehindHead(actorState) ==
  Len(actorState.queue) - (IF actorState.busy THEN 1 ELSE 0)
    >= actorState.policy.queueLimit

\* if (actorState.queue.length >= actorState.policy.queueLimit)
QueueIsFull(actorState) ==
  Len(actorState.queue) >= actorState.policy.queueLimit

\* Enqueue with unshift in place of push
EnqueueFront(queue, message) == <<message>> \o queue

\* actorState.queue.push(message)
Enqueue(queue, message) == Append(queue, message)

\* HandleRoute counting, for admission, only the queued messages whose
\* caller is still pending
HandleRouteCountsPending(s, actorType, actorId, payload) ==
  LET key == ActorKey(actorType, actorId)
      s0  == [s EXCEPT !.nCalls = @ + 1]
      c   == s0.nCalls
      s1  == IF key \in DOMAIN s0.actors THEN s0
             ELSE SetActor(s0, key, DefaultPolicy)
      actorState == s1.actors[key]
      payloadSize == PayloadSize(payload)
      waited == {i \in 1..Len(actorState.queue) :
                   actorState.queue[i].messageId \in s1.pendingResults}
  IN
  IF PayloadTooLarge(payloadSize, actorState)
  THEN Settle(s1, c, Reply(413, "Payload too large", 0, key, payloadSize))
  ELSE IF Cardinality(waited) >= actorState.policy.queueLimit
  THEN Settle(s1, c, Reply(429, "Queue is full", 0, key, payloadSize))
  ELSE LET messageId == NewMessageId(s1)
           message == [messageId |-> messageId, payload |-> payload]
           s2 == [s1 EXCEPT !.actors[key].queue = Enqueue(@, message),
                            !.pendingResults = @ \cup {messageId}]
           s3 == TriggerDraining(s2)
       IN  [s3 EXCEPT !.timers =
              @ \cup {[messageId |-> messageId, actorKey |-> key]}]

\* HandleRoute checking the payload before it creates the state of the key
HandleRouteChecksFirst(s, actorType, actorId, payload) ==
  LET key == ActorKey(actorType, actorId)
      s0  == [s EXCEPT !.nCalls = @ + 1]
      c   == s0.nCalls
      payloadSize == PayloadSize(payload)
      policy == IF key \in DOMAIN s0.actors THEN s0.actors[key].policy
                ELSE DefaultPolicy
  IN
  IF payloadSize > policy.maxPayloadBytes
  THEN Settle(s0, c, Reply(413, "Payload too large", 0, key, payloadSize))
  ELSE LET s1 == IF key \in DOMAIN s0.actors THEN s0
                 ELSE SetActor(s0, key, DefaultPolicy)
           actorState == s1.actors[key]
       IN
       IF QueueIsFull(actorState)
       THEN Settle(s1, c, Reply(429, "Queue is full", 0, key, payloadSize))
       ELSE LET messageId == NewMessageId(s1)
                message == [messageId |-> messageId, payload |-> payload]
                s2 == [s1 EXCEPT !.actors[key].queue = Enqueue(@, message),
                                 !.pendingResults = @ \cup {messageId}]
                s3 == TriggerDraining(s2)
            IN  [s3 EXCEPT !.timers =
                   @ \cup {[messageId |-> messageId, actorKey |-> key]}]

\* handleRoute from the parsed body to its await of the race
HandleRoute(s, actorType, actorId, payload) ==
  LET key == ActorKey(actorType, actorId)
      s0  == [s EXCEPT !.nCalls = @ + 1]
      c   == s0.nCalls
      s1  == IF key \in DOMAIN s0.actors THEN s0
             ELSE SetActor(s0, key, DefaultPolicy)
      actorState == s1.actors[key]
      payloadSize == PayloadSize(payload)
  IN
  IF PayloadTooLarge(payloadSize, actorState)
  THEN Settle(s1, c, Reply(413, "Payload too large", 0, key, payloadSize))
  ELSE IF QueueIsFull(actorState)
  THEN Settle(s1, c, Reply(429, "Queue is full", 0, key, payloadSize))
  ELSE LET messageId == NewMessageId(s1)
           message == [messageId |-> messageId, payload |-> payload]
           s2 == [s1 EXCEPT !.actors[key].queue = Enqueue(@, message),
                            !.pendingResults = @ \cup {messageId}]
           s3 == TriggerDraining(s2)
       IN  [s3 EXCEPT !.timers =
              @ \cup {[messageId |-> messageId, actorKey |-> key]}]

\* TimeoutCallback that also takes the message out of its queue
TimeoutCallbackCancels(s, tm) ==
  LET q == s.actors[tm.actorKey].queue
      kept == SelectSeq(q, LAMBDA m : m.messageId # tm.messageId)
  IN  Settle([s EXCEPT !.pendingResults = @ \ {tm.messageId},
                       !.timers = @ \ {tm},
                       !.actors[tm.actorKey].queue = kept],
             tm.messageId,
             Reply(504, "Processing timeout", 0, tm.actorKey, -1))

\* TimeoutCallback deleting the entry without rejecting the race
TimeoutCallbackForgets(s, tm) ==
  [s EXCEPT !.pendingResults = @ \ {tm.messageId},
            !.timers = @ \ {tm}]

\* the setTimeout callback of a route call
TimeoutCallback(s, tm) ==
  Settle([s EXCEPT !.pendingResults = @ \ {tm.messageId},
                   !.timers = @ \ {tm}],
         tm.messageId, Reply(504, "Processing timeout", 0, tm.actorKey, -1))

\* ----------------------------------------------------- processActorQueue

RECURSIVE SpawnChildrenReplaces(_, _, _)
\* SpawnChildren without the has() test: an existing state is overwritten
SpawnChildrenReplaces(s, key, spawn) ==
  IF Len(spawn) = 0 THEN s
  ELSE LET childKey == ActorKey(key[1], Head(spawn))
           s1 == IF childKey \in DOMAIN s.actors
                 THEN [s EXCEPT !.actors[childKey] =
                                   NewActorState(s.actors[key].policy)]
                 ELSE SetActor(s, childKey, s.actors[key].policy)
       IN  SpawnChildrenReplaces(s1, key, Tail(spawn))

RECURSIVE SpawnChildren(_, _, _)
\* for (const childId of spawn) { if (!this.actors.has(childKey)) set(...) }
SpawnChildren(s, key, spawn) ==
  IF Len(spawn) = 0 THEN s
  ELSE LET childKey == ActorKey(key[1], Head(spawn))
           s1 == IF childKey \in DOMAIN s.actors THEN s
                 ELSE SetActor(s, childKey, s.actors[key].policy)
       IN  SpawnChildren(s1, key, Tail(spawn))

\* RejectQueued emptying the queue without rejecting the callers
RejectQueuedSilently(s, key) == [s EXCEPT !.actors[key].queue = <<>>]

RECURSIVE RejectQueued(_, _)
\* the reject branch: while (queue.length > 0) { shift, reject its pending }
RejectQueued(s, key) ==
  IF Len(s.actors[key].queue) = 0 THEN s
  ELSE LET m == Head(s.actors[key].queue)
           s1 == [s EXCEPT !.actors[key].queue = Shift(@)]
       IN  RejectQueued(RejectPending(s1, m.messageId, key,
                                      "Message rejected by actor"), key)

\* FetchThrew with the head message dropped
FetchThrewDropsHead(s, d) ==
  DrainFinally(ReleaseBusy(
    [s EXCEPT !.actors[d.actorKey].queue = Shift(@)], d.actorKey))

\* the invoke call threw: finally clears busy, the exception ends drainLoop
FetchThrew(s, d) ==
  DrainFinally(ReleaseBusy(s, d.actorKey))

\* FetchThrew, with the message of the call written into the history
FetchThrewNoted(s, d) ==
  FetchThrew([s EXCEPT !.thrown = @ \cup {d.message.messageId}], d)

\* FetchNotOk without the break: the loop goes on with the next message
FetchNotOkNoBreak(s, d) ==
  LET s1 == RejectPending(s, d.message.messageId, d.actorKey, "Actor DO error")
      s2 == [s1 EXCEPT !.actors[d.actorKey].queue = Shift(@),
                       !.paused = IF Len(s1.actors[d.actorKey].queue) > 1
                                  THEN @ ELSE @ \ {d.actorKey}]
  IN  WhileQueue(s2, d.actorKey)

\* FetchNotOk removing the head without rejecting its pending entry
FetchNotOkKeepsPending(s, d) ==
  LET s2 == [s EXCEPT !.actors[d.actorKey].queue = Shift(@),
                      !.paused = IF Len(s.actors[d.actorKey].queue) > 1
                                 THEN @ ELSE @ \ {d.actorKey}]
  IN  PersistActorState(s2, d.actorKey, "notok")

\* the invoke call returned a non-success status: reject the head's pending,
\* remove the head, break, persist
FetchNotOk(s, d) ==
  LET s1 == RejectPending(s, d.message.messageId, d.actorKey, "Actor DO error")
      s2 == [s1 EXCEPT !.actors[d.actorKey].queue = Shift(@),
                       !.paused = IF Len(s1.actors[d.actorKey].queue) > 1
                                  THEN @ ELSE @ \ {d.actorKey}]
  IN  PersistActorState(s2, d.actorKey, "notok")

\* the invoke call returned 200: await resp.json()
FetchOk(s, d, body) ==
  [s EXCEPT !.drains =
     @ \cup {Drain("json", d.actorKey, d.message, body, NoSnap, "none")}]

\* BodyParsed with wait handled as immediate: no break
BodyParsedWaitContinues(s, d) ==
  LET key == d.actorKey
      s1 == SpawnChildren(s, key, d.body.spawn)
      s2 == ResolvePending(s1, d.message.messageId, key, d.message.messageId)
      s3 == [s2 EXCEPT !.actors[key].queue = Shift(@),
                       !.paused = IF d.body.mode = "wait"
                                     /\ Len(s2.actors[key].queue) > 1
                                  THEN @ \cup {key} ELSE @ \ {key}]
  IN  IF d.body.mode = "reject"
      THEN PersistActorState(RejectQueued(s3, key), key, "reject")
      ELSE WhileQueue(s3, key)

\* BodyParsed going on with the loop for mode immediate only: any other
\* mode that is not reject breaks as wait does
BodyParsedOnlyImmediateContinues(s, d) ==
  LET key == d.actorKey
      s1 == SpawnChildren(s, key, d.body.spawn)
      s2 == ResolvePending(s1, d.message.messageId, key, d.message.messageId)
      s3 == [s2 EXCEPT !.actors[key].queue = Shift(@),
                       !.paused = IF d.body.mode = "wait"
                                     /\ Len(s2.actors[key].queue) > 1
                                  THEN @ \cup {key} ELSE @ \ {key}]
  IN  IF d.body.mode = "reject"
      THEN PersistActorState(RejectQueued(s3, key), key, "reject")
      ELSE IF d.body.mode = "immediate" THEN WhileQueue(s3, key)
      ELSE PersistActorState(s3, key, "wait")

\* from the parsed body to the next await: spawn, resolve, shift, nextPolicy
BodyParsed(s, d) ==
  LET key == d.actorKey
      s1 == SpawnChildren(s, key, d.body.spawn)
      s2 == ResolvePending(s1, d.message.messageId, key, d.message.messageId)
      s3 == [s2 EXCEPT !.actors[key].queue = Shift(@),
                       !.paused = IF d.body.mode = "wait"
                                     /\ Len(s2.actors[key].queue) > 1
                                  THEN @ \cup {key} ELSE @ \ {key}]
  IN  IF d.body.mode = "wait" THEN PersistActorState(s3, key, "wait")
      ELSE IF d.body.mode = "reject"
      THEN PersistActorState(RejectQueued(s3, key), key, "reject")
      ELSE WhileQueue(s3, key)

\* PutDone with drainLoop starting over from the first key
PutDoneStartsOver(s, d) ==
  LET key == d.actorKey
      record == [busy |-> d.snap.busy, queueLength |-> d.snap.queueLength,
                 actorType |-> key[1], actorId |-> key[2]]
      s1 == [s EXCEPT !.meta = (key :> record) @@ @]
  IN  DrainLoop(ReleaseBusy(s1, key), 1)

\* storage.put returned: the record is stored, finally clears busy and
\* drainLoop goes on with the next key
PutDone(s, d) ==
  LET key == d.actorKey
      record == [busy |-> d.snap.busy, queueLength |-> d.snap.queueLength,
                 actorType |-> key[1], actorId |-> key[2]]
      s1 == [s EXCEPT !.meta = (key :> record) @@ @]
  IN  DrainLoop(ReleaseBusy(s1, key), IndexOf(s.order, key) + 1)

\* PutThrew with busy cleared after the await instead of in a finally
PutThrewKeepsBusy(s, d) ==
  DrainFinally(s)

\* storage.put threw: finally clears busy, the exception ends drainLoop
PutThrew(s, d) ==
  DrainFinally(ReleaseBusy(s, d.actorKey))

\* the state with coroutine d resumed (taken out of the suspended ones)
Resume(d) == [St EXCEPT !.drains = @ \ {d}]

\* ... and its invoke call no longer outstanding
Returned(d) ==
  [Resume(d) EXCEPT !.inflight =
     RemoveFirst(@, [actorKey |-> d.actorKey, messageId |-> d.message.messageId])]

\* --------------------------------------------------------------- actions

Route ==
  /\ nCalls < MaxCalls
  /\ \E actorType \in ActorTypes, actorId \in ActorIds, payload \in Payloads :
       Install(HandleRoute(St, actorType, actorId, payload))

TimerFires ==
  \E tm \in timers : Install(TimeoutCallback(St, tm))

InvokeThrows ==
  \E d \in drains : d.pc = "fetch" /\ Install(FetchThrew(Returned(d), d))

InvokeFails ==
  \E d \in drains : d.pc = "fetch" /\ Install(FetchNotOk(Returned(d), d))

InvokeResponds ==
  \E d \in drains : d.pc = "fetch" /\
    \E body \in Envelopes : Install(FetchOk(Returned(d), d, body))

JsonParsed ==
  \E d \in drains : d.pc = "json" /\ Install(BodyParsed(Resume(d), d))

MetaWritten ==
  \E d \in drains : d.pc = "persist" /\ Install(PutDone(Resume(d), d))

MetaWriteFails ==
  \E d \in drains : d.pc = "persist" /\ Install(PutThrew(Resume(d), d))

Next ==
  \/ Route
  \/ TimerFires
  \/ InvokeThrows
  \/ InvokeFails
  \/ InvokeResponds
  \/ JsonParsed
  \/ MetaWritten
  \/ MetaWriteFails

Spec == Init /\ [][Next]_vars

\* Spec with the timers firing: an armed setTimeout that is not cleared runs
\* its callback.
SpecTimers == Spec /\ WF_vars(TimerFires)

\* Spec with everything returning except, possibly, the invoke call: the
\* timers fire, resp.json() settles, storage.put returns or throws.  Nothing
\* in the Router bounds the time an invoke call may take.
SpecStuck ==
  /\ SpecTimers
  /\ WF_vars(JsonParsed)
  /\ WF_vars(MetaWritten)

\* The same Router receiving requests for one actor key only.
RouteOneKey ==
  /\ nCalls < MaxCallsOneKey
  /\ \E payload \in PayloadsOneKey :
       Install(HandleRoute(St, "room", "r1", payload))

NextOneKey ==
  \/ RouteOneKey
  \/ TimerFires
  \/ InvokeThrows
  \/ InvokeFails
  \/ InvokeResponds
  \/ JsonParsed
  \/ MetaWritten
  \/ MetaWriteFails

SpecOneKey == Init /\ [][NextOneKey]_vars

\* The scenario of concurrent requests to one key under normal operation:
\* every invoke call returns an envelope that does not say reject, every
\* metadata write succeeds, and no request waits as long as timeoutMs.
InvokeRespondsCalm ==
  \E d \in drains : d.pc = "fetch" /\
    \E body \in Envelopes :
      body.mode # "reject" /\ Install(FetchOk(Returned(d), d, body))

NextCalm ==
  \/ RouteOneKey
  \/ InvokeRespondsCalm
  \/ JsonParsed
  \/ MetaWritten

SpecCalm ==
  /\ Init
  /\ [][NextCalm]_vars
  /\ WF_vars(InvokeRespondsCalm)
  /\ WF_vars(JsonParsed)
  /\ WF_vars(MetaWritten)

\* A Router under sustained traffic.  messageIds are opaque (randomUUID) and
\* the Router keeps nothing about a route call once its caller is answered,
\* its message has left the queue and its timer is cleared; the records kept
\* here about such a call are dropped and the later calls renumbered, in
\* arrival order, so that MaxCalls bounds the calls in progress and not the
\* calls of a behaviour.
Live(s) ==
  UNION {{s.actors[k].queue[i].messageId : i \in 1..Len(s.actors[k].queue)} :
           k \in DOMAIN s.actors}
    \cup s.pendingResults
    \cup {tm.messageId : tm \in s.timers}
    \cup {s.inflight[i].messageId : i \in 1..Len(s.inflight)}
    \cup {d.message.messageId : d \in s.drains}

\* the number of call id once the records of call c are dropped
Renumber(c, id) == IF id > c THEN id - 1 ELSE id

ForgetCall(s, c) ==
  LET Msg(m) == [m EXCEPT !.messageId = Renumber(c, @)]
      Ref(r) == [r EXCEPT !.messageId = Renumber(c, @)]
  IN
  [s EXCEPT
     !.actors = [k \in DOMAIN @ |->
                   [@[k] EXCEPT !.queue = [i \in 1..Len(@) |-> Msg(@[i])]]],
     !.pendingResults = {Renumber(c, id) : id \in @},
     !.timers = {Ref(tm) : tm \in @},
     !.inflight = [i \in 1..Len(@) |-> Ref(@[i])],
     !.drains = {[d EXCEPT !.message = Msg(@)] : d \in @},
     !.invoked = {Ref(r) : r \in {x \in @ : x.messageId # c}},
     !.thrown = {Renumber(c, id) : id \in @ \ {c}},
     !.replies = [id \in {Renumber(c, old) : old \in DOMAIN @ \ {c}} |->
                    LET old == IF id >= c THEN id + 1 ELSE id IN
                    [@[old] EXCEPT !.result = Renumber(c, @)]],
     !.nCalls = @ - 1]

Forget ==
  \E c \in DOMAIN replies :
    c \notin Live(St) /\ Install(ForgetCall(St, c))

NextTraffic ==
  \/ Route
  \/ Forget
  \/ InvokeRespondsCalm
  \/ JsonParsed
  \/ MetaWritten

\* every addressed call returns: the invoke call, the reading of its body,
\* the metadata write
SpecTraffic ==
  /\ Init
  /\ [][NextTraffic]_vars
  /\ WF_vars(InvokeRespondsCalm)
  /\ WF_vars(JsonParsed)
  /\ WF_vars(MetaWritten)

\* ------------------------------------------------- status and admin-reset

\* a suspended handleStatus or admin-reset coroutine: where it awaits (pc),
\* its actorTypePrefix, what storage.list read for it (all), the listed keys
\* its loop has not finished (todo), the actors it has called admin-reset on
\* (requested) and, for the record, the admin-reset that had just returned
\* when the request came in
Admin(op, pc, prefix, all, todo, requested, afterReset) ==
  [op |-> op, pc |-> pc, prefix |-> prefix, all |-> all, todo |-> todo,
   requested |-> requested, afterReset |-> afterReset]

\* storage.list({ prefix: "meta:" + actorTypePrefix }), keyed by actorKey
ListMeta(prefix) ==
  [k \in {key \in DOMAIN meta : StartsWith(key, prefix)} |-> meta[k]]

\* the keys of a listing in the order storage.list yields them; the keys of
\* one Router are told apart by their actor ids
RECURSIVE ListOrder(_)
ListOrder(keys) ==
  IF keys = {} THEN <<>>
  ELSE LET Rank(key) == IndexOf(<<"q1", "r1", "r2", "t1">>, key[2])
           first == CHOOSE k \in keys : \A h \in keys : Rank(k) <= Rank(h)
       IN  <<first>> \o ListOrder(keys \ {first})

\* the entry handleStatus builds from a stored meta record
StorageEntry(key, record) ==
  [actorKey |-> key, actorType |-> record.actorType,
   actorId |-> record.actorId, busy |-> record.busy,
   queueLength |-> record.queueLength, policy |-> NoPolicy,
   fromStorage |-> TRUE, fromMemory |-> FALSE]

\* the entry handleStatus builds from a live actorState alone
MemoryEntry(key, actorState) ==
  [actorKey |-> key, actorType |-> key[1], actorId |-> key[2],
   busy |-> actorState.busy, queueLength |-> Len(actorState.queue),
   policy |-> actorState.policy, fromStorage |-> FALSE, fromMemory |-> TRUE]

\* handleStatus's merge with the stored values kept for a key memory holds
StatusMapStorageWins(all, prefix) ==
  LET live == {key \in DOMAIN actors : Len(prefix) = 0 \/ StartsWith(key, prefix)}
  IN  [key \in DOMAIN all \cup live |->
         IF key \in DOMAIN all
         THEN StorageEntry(key, all[key])
         ELSE MemoryEntry(key, actors[key])]

\* handleStatus's merge with the prefix test of the live states left out
StatusMapUnfiltered(all, prefix) ==
  [key \in DOMAIN all \cup DOMAIN actors |->
     IF key \in DOMAIN all
     THEN IF key \in DOMAIN actors
          THEN [StorageEntry(key, all[key]) EXCEPT
                  !.busy = actors[key].busy,
                  !.queueLength = Len(actors[key].queue),
                  !.policy = actors[key].policy,
                  !.fromMemory = TRUE]
          ELSE StorageEntry(key, all[key])
     ELSE MemoryEntry(key, actors[key])]

\* handleStatus after its await: statusMap is built from the listing, then
\* every live actorState the prefix admits overwrites the runtime fields of
\* its entry or adds an entry of its own
StatusMap(all, prefix) ==
  LET live == {key \in DOMAIN actors : Len(prefix) = 0 \/ StartsWith(key, prefix)}
  IN  [key \in DOMAIN all \cup live |->
         IF key \in DOMAIN all
         THEN IF key \in live
              THEN [StorageEntry(key, all[key]) EXCEPT
                      !.busy = actors[key].busy,
                      !.queueLength = Len(actors[key].queue),
                      !.policy = actors[key].policy,
                      !.fromMemory = TRUE]
              ELSE StorageEntry(key, all[key])
         ELSE MemoryEntry(key, actors[key])]

\* the variables of handleRoute and the drain scheduler
routerVars ==
  <<actors, order, pendingResults, isDraining, drains, inflight, timers,
    nCalls, replies, invoked, cycle, paused, thrown>>

\* GET /status: handleStatus up to its await of storage.list
HandleStatus(prefix) ==
  /\ nAdmin < MaxAdminOps
  /\ admin' = admin \cup
       {Admin("status", "list", prefix, ListMeta(prefix), <<>>, {}, lastReset)}
  /\ nAdmin' = nAdmin + 1
  /\ lastReset' = NoPrefix
  /\ UNCHANGED <<routerVars, actorVars, meta, statusOut, resetOut>>

StatusCalled == \E prefix \in Prefixes : HandleStatus(prefix)

\* storage.list returned to handleStatus: the snapshot is the response
StatusListed ==
  \E c \in admin :
    /\ c.op = "status"
    /\ c.pc = "list"
    /\ admin' = admin \ {c}
    /\ statusOut' = [prefix |-> c.prefix, afterReset |-> c.afterReset,
                     actors |-> StatusMap(c.all, c.prefix)]
    /\ lastReset' = NoPrefix
    /\ UNCHANGED <<routerVars, actorVars, meta, resetOut, nAdmin>>

\* POST /admin-reset up to its await of storage.list
AdminReset(prefix) ==
  /\ nAdmin < MaxAdminOps
  /\ LET all == ListMeta(prefix) IN
     admin' = admin \cup
       {Admin("reset", "list", prefix, all, ListOrder(DOMAIN all), {}, NoPrefix)}
  /\ nAdmin' = nAdmin + 1
  /\ lastReset' = NoPrefix
  /\ UNCHANGED <<routerVars, actorVars, meta, statusOut, resetOut>>

ResetCalled == \E prefix \in Prefixes : AdminReset(prefix)

\* ResetLoop that, before it returns the response, drops the in-memory
\* state of the keys under the prefix
ResetLoopWipes(c) ==
  IF c.todo = <<>>
  THEN /\ admin' = admin \ {c}
       /\ resetOut' = [prefix |-> c.prefix, cleared |-> DOMAIN c.all,
                       requested |-> c.requested]
       /\ lastReset' = c.prefix
       /\ actors' = [k \in {key \in DOMAIN actors : ~StartsWith(key, c.prefix)}
                       |-> actors[k]]
       /\ order' = SelectSeq(order, LAMBDA key : ~StartsWith(key, c.prefix))
       /\ UNCHANGED <<pendingResults, isDraining, drains, inflight, timers,
                      nCalls, replies, invoked, cycle, paused, thrown,
                      actorVars>>
  ELSE /\ admin' = (admin \ {c}) \cup
                     {[c EXCEPT !.pc = "actor",
                                !.requested = @ \cup {Head(c.todo)}]}
       /\ UNCHANGED <<resetOut, routerVars, actorVars>>
       /\ lastReset' = NoPrefix

\* admin-reset at the top of its for loop: with a key left the actor's
\* /admin-reset is called and awaited, with none the response is returned.
\* Neither touches this.actors, this.pendingResults or this.isDraining.
ResetLoop(c) ==
  IF c.todo = <<>>
  THEN /\ admin' = admin \ {c}
       /\ resetOut' = [prefix |-> c.prefix, cleared |-> DOMAIN c.all,
                       requested |-> c.requested]
       /\ lastReset' = c.prefix
       /\ UNCHANGED <<routerVars, actorVars>>
  ELSE /\ admin' = (admin \ {c}) \cup
                     {[c EXCEPT !.pc = "actor",
                                !.requested = @ \cup {Head(c.todo)}]}
       /\ UNCHANGED <<resetOut, routerVars, actorVars>>
       /\ lastReset' = NoPrefix

\* storage.list returned to admin-reset
ResetListed ==
  \E c \in admin :
    /\ c.op = "reset"
    /\ c.pc = "list"
    /\ ResetLoop(c)
    /\ UNCHANGED <<meta, statusOut, nAdmin>>

\* the actor's /admin-reset returned: storage.delete(key) is awaited
ActorResetReturned ==
  \E c \in admin :
    /\ c.pc = "actor"
    /\ admin' = (admin \ {c}) \cup {[c EXCEPT !.pc = "delete"]}
    /\ lastReset' = NoPrefix
    /\ UNCHANGED <<routerVars, actorVars, meta, statusOut, resetOut, nAdmin>>

\* storage.delete returned: the record is gone and the loop goes on
MetaDeleted ==
  \E c \in admin :
    /\ c.pc = "delete"
    /\ meta' = [k \in DOMAIN meta \ {Head(c.todo)} |-> meta[k]]
    /\ ResetLoop([c EXCEPT !.todo = Tail(@)])
    /\ UNCHANGED <<statusOut, nAdmin>>

\* The Router instance is activated afresh: the constructor's tables,
\* durable storage as it was.  An instance leaves memory only with no
\* request in progress.
Restart ==
  /\ drains = {}
  /\ admin = {}
  /\ timers = {}
  /\ DOMAIN actors # {}
  /\ actors' = EmptyMap
  /\ order' = <<>>
  /\ pendingResults' = {}
  /\ isDraining' = FALSE
  /\ paused' = {}
  /\ thrown' = {}
  /\ lastReset' = NoPrefix
  /\ UNCHANGED <<drains, inflight, timers, meta, nCalls, replies, invoked,
                 cycle, admin, statusOut, resetOut, nAdmin, actorVars>>

\* the teacher Router's traffic: route calls for teacher:t1, answered by the
\* actor with immediate envelopes that may carry the spawn hint q1
RouteAdmin ==
  /\ nCalls < MaxCalls
  /\ \E actorId \in AdminIds, payload \in Payloads :
       Install(HandleRoute(St, "teacher", actorId, payload))

InvokeRespondsAdmin ==
  \E d \in drains : d.pc = "fetch" /\
    \E body \in AdminEnvelopes : Install(FetchOk(Returned(d), d, body))

NextAdmin ==
  \/ RouteAdmin
  \/ InvokeRespondsAdmin
  \/ JsonParsed
  \/ MetaWritten
  \/ StatusCalled
  \/ StatusListed
  \/ ResetCalled
  \/ ResetListed
  \/ ActorResetReturned
  \/ MetaDeleted
  \/ Restart

SpecAdmin == Init /\ [][NextAdmin]_vars

\* The teacher Router reset while it works: route calls for teacher:q1 and
\* teacher:t1 answered with plain immediate envelopes, admin-reset requests
\* with the prefix "teacher:" as the worker's /reset-router sends them, and
\* a status request with the same prefix as soon as a reset has returned.
RouteReset ==
  /\ nCalls < MaxCalls
  /\ \E actorId \in ResetIds, payload \in Payloads :
       Install(HandleRoute(St, "teacher", actorId, payload))

InvokeRespondsReset ==
  \E d \in drains : d.pc = "fetch" /\
    Install(FetchOk(Returned(d), d, [mode |-> "immediate", spawn |-> <<>>]))

ResetCalledTeacher == AdminReset(<<"teacher">>)

StatusCalledAfterReset == lastReset # NoPrefix /\ HandleStatus(lastReset)

NextReset ==
  \/ RouteReset
  \/ InvokeRespondsReset
  \/ JsonParsed
  \/ MetaWritten
  \/ ResetCalledTeacher
  \/ ResetListed
  \/ ActorResetReturned
  \/ MetaDeleted
  \/ StatusCalledAfterReset
  \/ StatusListed

SpecReset == Init /\ [][NextReset]_vars

\* SpecReset with every addressed call returning: the invoke call, the
\* reading of its body, the metadata write
SpecResetFair ==
  /\ SpecReset
  /\ WF_vars(InvokeRespondsReset)
  /\ WF_vars(JsonParsed)
  /\ WF_vars(MetaWritten)

\* ------------------------------------------------------- GoldfishActor

\* A memory object is represented by the marks put on it: the mark of an
\* /invoke request is its number (handleMessage writes actorType, actorId
\* and lastActiveAt into ctx.memory before the handler runs), the mark 0 is
\* what earlier activations wrote.
StoredAtActivation == {NoMemory, [present |-> TRUE, marks |-> {0}]}

\* the actor types handleMessage has a handler for
HandlerTypes == {"teacher", "room", "student", "question"}

\* the actorType of the /invoke requests: one with a handler, one without
InvokedTypes == {"teacher", "ghost"}

\* What a handler returns: a result that is a business-level error or not,
\* nextPolicy and spawn, either of which it may leave out.
Res(error, hasPolicy, mode, hasSpawn, spawn) ==
  [error |-> error, hasPolicy |-> hasPolicy, mode |-> mode,
   hasSpawn |-> hasSpawn, spawn |-> spawn]

NoRes == Res(FALSE, FALSE, "none", FALSE, <<>>)

\* the handlers are outside the model: a plain result with nothing else, or
\* an error result with nextPolicy wait and a spawn hint
HandlerResults ==
  {Res(FALSE, FALSE, "none", FALSE, <<>>), Res(TRUE, TRUE, "wait", TRUE, <<"q1">>)}

\* the else branch answering with nextPolicy wait
UnknownActorTypeWaits == Res(TRUE, TRUE, "wait", TRUE, <<>>)

\* handleMessage's else branch
UnknownActorType == Res(TRUE, TRUE, "immediate", TRUE, <<>>)

\* if (!res.nextPolicy) res.nextPolicy = { mode: "immediate" };
\* if (!res.spawn) res.spawn = [];
Defaults(res) ==
  [res EXCEPT !.hasPolicy = TRUE,
              !.mode = IF res.hasPolicy THEN @ ELSE "immediate",
              !.hasSpawn = TRUE,
              !.spawn = IF res.hasSpawn THEN @ ELSE <<>>]

\* a suspended request of the actor: where it awaits (pc), its number, the
\* actorType of its body, the object ctx.memory refers to, what storage.get
\* read for it, what handleMessage returned, and the value storage.put is
\* writing for it
Request(op, pc, id, actorType, ctx, got, res, snap) ==
  [op |-> op, pc |-> pc, id |-> id, actorType |-> actorType, ctx |-> ctx,
   got |-> got, res |-> res, snap |-> snap]

\* the variables of the Router
nonActorVars ==
  <<actors, order, pendingResults, isDraining, drains, inflight, timers,
    nCalls, replies, invoked, cycle, paused, thrown, meta, admin, statusOut,
    resetOut, lastReset, nAdmin>>

\* JSON.stringify(this.memory || {}): the marks of the object, none for null
MemoryOrEmpty == IF memory = 0 THEN {} ELSE heap[memory]

\* fetch up to its first suspension.  ensureInitialized returns at once when
\* this.initialized is set; otherwise it calls storage.get("memory") and
\* awaits it.  With memory initialized /invoke goes on to await
\* request.json() and /status returns this.memory.
ActorFetch(op, actorType) ==
  /\ nRequests < MaxRequests
  /\ nRequests' = nRequests + 1
  /\ IF initialized
     THEN /\ IF op = "invoke"
             THEN /\ requests' = requests \cup
                       {Request(op, "json", nRequests + 1, actorType, 0,
                                NoMemory, NoRes, {})}
                  /\ UNCHANGED lastStatus
             ELSE /\ lastStatus' = [by |-> nRequests + 1, marks |-> MemoryOrEmpty]
                  /\ UNCHANGED requests
          /\ UNCHANGED nReads
     ELSE /\ requests' = requests \cup
                           {Request(op, "get", nRequests + 1, actorType, 0,
                                    actorStorage, NoRes, {})}
          /\ nReads' = nReads + 1
          /\ UNCHANGED lastStatus
  /\ UNCHANGED <<memory, initialized, actorStorage, heap, lastPut, actorReset>>

\* ensureInitialized after its await: this.memory = stored || {}, a new
\* object either way, and this.initialized = true.  /invoke goes on to await
\* request.json(), /status returns the memory.
EnsureInitialized(r) ==
  /\ heap' = Append(heap, r.got.marks)
  /\ memory' = Len(heap) + 1
  /\ initialized' = TRUE
  /\ IF r.op = "invoke"
     THEN /\ requests' = (requests \ {r}) \cup {[r EXCEPT !.pc = "json"]}
          /\ UNCHANGED lastStatus
     ELSE /\ requests' = requests \ {r}
          /\ lastStatus' = [by |-> r.id, marks |-> r.got.marks]

ActorInvoke ==
  /\ \E actorType \in InvokedTypes : ActorFetch("invoke", actorType)
  /\ UNCHANGED nonActorVars

ActorStatus == ActorFetch("status", "none") /\ UNCHANGED nonActorVars

\* storage.get("memory") returned
MemoryRead ==
  \E r \in requests :
    /\ r.pc = "get"
    /\ EnsureInitialized(r)
    /\ UNCHANGED <<actorStorage, nRequests, nReads, lastPut, actorReset,
                   nonActorVars>>

\* request.json() returned: ctx takes this.memory, handleMessage marks
\* ctx.memory and, for a type that has one, awaits the handler
BodyRead ==
  \E r \in requests :
    /\ r.pc = "json"
    /\ heap' = [heap EXCEPT ![memory] = @ \cup {r.id}]
    /\ requests' = (requests \ {r}) \cup
                     {[r EXCEPT !.pc = "handle", !.ctx = memory]}
    /\ UNCHANGED <<memory, initialized, actorStorage, nRequests, nReads,
                   lastPut, lastStatus, actorReset, nonActorVars>>

\* handleMessage returned res, defaults filled in:
\* storage.put("memory", this.memory) is called with the object this.memory
\* refers to now, and awaited
HandleMessageReturned(r, res) ==
  /\ requests' = (requests \ {r}) \cup
                   {[r EXCEPT !.pc = "put", !.res = Defaults(res),
                              !.snap = heap[memory]]}
  /\ UNCHANGED <<memory, initialized, actorStorage, heap, nRequests, nReads,
                 lastPut, lastStatus, actorReset, nonActorVars>>

\* the handler of the actor type returned, or there is none
HandlerReturned ==
  \E r \in requests :
    /\ r.pc = "handle"
    /\ IF r.actorType \in HandlerTypes
       THEN \E res \in HandlerResults : HandleMessageReturned(r, res)
       ELSE HandleMessageReturned(r, UnknownActorType)

\* the handler threw: the exception leaves fetch, nothing is persisted and
\* no envelope is returned
HandlerThrew ==
  \E r \in requests :
    /\ r.pc = "handle"
    /\ r.actorType \in HandlerTypes
    /\ requests' = requests \ {r}
    /\ UNCHANGED <<memory, initialized, actorStorage, heap, nRequests, nReads,
                   lastPut, lastStatus, actorReset, nonActorVars>>

\* storage.put returned: the value is stored and the envelope is returned
PutReturned(r) ==
  /\ actorStorage' = [present |-> TRUE, marks |-> r.snap]
  /\ lastPut' = [by |-> r.id, marks |-> r.snap]
  /\ requests' = requests \ {r}
  /\ UNCHANGED <<memory, initialized, heap, nRequests, nReads, lastStatus,
                 actorReset>>

MemoryWritten ==
  \E r \in requests :
    /\ r.pc = "put"
    /\ PutReturned(r)
    /\ UNCHANGED nonActorVars

NextActor ==
  \/ ActorInvoke
  \/ ActorStatus
  \/ MemoryRead
  \/ BodyRead
  \/ HandlerReturned
  \/ HandlerThrew
  \/ MemoryWritten

\* one activation of the actor, receiving /invoke and /status requests
InitActor == RouterInit /\ \E stored \in StoredAtActivation : ActorInit(stored)

SpecActor == InitActor /\ [][NextActor]_vars

\* POST /admin-reset of the actor up to its await of storage.delete
ActorResetCalled ==
  /\ nRequests < MaxRequests
  /\ nRequests' = nRequests + 1
  /\ requests' = requests \cup
       {Request("reset", "delete", nRequests + 1, "none", 0, NoMemory, NoRes, {})}
  /\ UNCHANGED <<memory, initialized, actorStorage, heap, nReads, lastPut,
                 lastStatus, actorReset, nonActorVars>>

\* storage.delete("memory") returned: this.memory = {}, a new object, and
\* this.initialized = false
ActorResetDone ==
  \E r \in requests :
    /\ r.pc = "delete"
    /\ actorStorage' = NoMemory
    /\ heap' = Append(heap, {})
    /\ memory' = Len(heap) + 1
    /\ initialized' = FALSE
    /\ requests' = requests \ {r}
    /\ actorReset' = [at |-> nRequests,
                       marks |-> actorStorage.marks \cup
                                 UNION {heap[i] : i \in 1..Len(heap)}]
    /\ UNCHANGED <<nRequests, nReads, lastPut, lastStatus, nonActorVars>>

NextActorReset ==
  \/ NextActor
  \/ ActorResetCalled
  \/ ActorResetDone

\* one activation of the actor, receiving /admin-reset requests as well
SpecActorReset == InitActor /\ [][NextActorReset]_vars

\* The Router and the actor of one key together.  The first route call
\* names the actor, teacher:a1 or ghost:a1; the Router's invoke calls are
\* the actor's /invoke requests, and what the actor returns is what the
\* Router's awaited fetch yields.  /status requests reach the actor from the
\* worker at any time.
RouteSystem ==
  /\ nCalls < MaxCalls
  /\ \E actorType \in InvokedTypes, payload \in Payloads :
       /\ \A k \in DOMAIN actors : k[1] = actorType
       /\ Install(HandleRoute(St, actorType, "a1", payload))

\* the awaited invoke call of the Router arrives at the actor
InvokeArrives ==
  \E d \in drains :
    /\ d.pc = "fetch"
    /\ \A r \in requests : r.op # "invoke"
    /\ ActorFetch("invoke", d.actorKey[1])
    /\ UNCHANGED nonActorVars

\* the actor returns the envelope with status 200: resp.ok, await resp.json()
InvokeReturnsEnvelope ==
  \E d \in drains, r \in requests :
    /\ d.pc = "fetch"
    /\ r.pc = "put"
    /\ PutReturned(r)
    /\ InstallRouter(FetchOk(Returned(d), d,
                             [mode |-> r.res.mode, spawn |-> r.res.spawn]))

\* the handler threw: the actor's fetch fails and the Router's call yields a
\* response that is not ok
InvokeReturnsError ==
  \E d \in drains, r \in requests :
    /\ d.pc = "fetch"
    /\ r.pc = "handle"
    /\ r.actorType \in HandlerTypes
    /\ requests' = requests \ {r}
    /\ UNCHANGED <<memory, initialized, actorStorage, heap, nRequests, nReads,
                   lastPut, lastStatus, actorReset>>
    /\ InstallRouter(FetchNotOk(Returned(d), d))

NextSystem ==
  \/ RouteSystem
  \/ InvokeArrives
  \/ ActorStatus
  \/ MemoryRead
  \/ BodyRead
  \/ HandlerReturned
  \/ InvokeReturnsEnvelope
  \/ InvokeReturnsError
  \/ JsonParsed
  \/ MetaWritten

SpecSystem == InitActor /\ [][NextSystem]_vars

\* ------------------------------------------ refused calls and status

\* The teacher Router receiving route calls for teacher:q1 and teacher:t1
\* with payloads of the limit and of a byte over it, answered with plain
\* immediate envelopes, and status requests.
RouteRefusable ==
  /\ nCalls < MaxCalls
  /\ \E actorId \in ResetIds, payload \in PayloadsOneKey :
       Install(HandleRoute(St, "teacher", actorId, payload))

\* a status request for every key, or for teacher:q1 alone
StatusCalledKeys ==
  \E prefix \in {<<>>, <<"teacher", "q1">>} : HandleStatus(prefix)

NextRefused ==
  \/ RouteRefusable
  \/ InvokeRespondsReset
  \/ JsonParsed
  \/ MetaWritten
  \/ StatusCalledKeys
  \/ StatusListed

SpecRefused == Init /\ [][NextRefused]_vars

\* ------------------------------------------- exceptions of the envelope

\* The handling of a parsed envelope throws before the caller is resolved:
\* spawn is not iterable and for (const childId of spawn) raises a TypeError.
\* finally clears busy, the exception ends drainLoop.
SpawnThrew(s, d) ==
  DrainFinally(ReleaseBusy(s, d.actorKey))

\* ... or after the head was shifted: nextPolicy is null, a value the
\* destructuring default does not replace, and nextPolicy.mode raises a
\* TypeError.
PolicyThrew(s, d) ==
  LET key == d.actorKey
      s1 == SpawnChildren(s, key, d.body.spawn)
      s2 == ResolvePending(s1, d.message.messageId, key, d.message.messageId)
      s3 == [s2 EXCEPT !.actors[key].queue = Shift(@),
                       !.paused = @ \ {key}]
  IN  DrainFinally(ReleaseBusy(s3, key))

SpawnThrows ==
  \E d \in drains : d.pc = "json" /\ Install(SpawnThrew(Resume(d), d))

PolicyThrows ==
  \E d \in drains : d.pc = "json" /\ Install(PolicyThrew(Resume(d), d))

NextExits ==
  \/ Route
  \/ TimerFires
  \/ InvokeThrows
  \/ InvokeFails
  \/ InvokeResponds
  \/ JsonParsed
  \/ SpawnThrows
  \/ PolicyThrows
  \/ MetaWritten
  \/ MetaWriteFails

SpecExits == Init /\ [][NextExits]_vars

\* The Router with the throwing invoke calls remembered: as Spec with every
\* metadata write succeeding, and thrown holding the queued messages whose
\* invoke call has thrown.
InvokeThrowsNoted ==
  \E d \in drains : d.pc = "fetch" /\ Install(FetchThrewNoted(Returned(d), d))

NextRetry ==
  \/ Route
  \/ TimerFires
  \/ InvokeThrowsNoted
  \/ InvokeFails
  \/ InvokeResponds
  \/ JsonParsed
  \/ MetaWritten

SpecRetry == Init /\ [][NextRetry]_vars

\* ------------------------------------------------- the ways into /route

\* A field the JSON body does not carry reads as undefined, and the template
\* string of the actor key renders it as the text "undefined".
Undefined == "undefined"

DoorTypes == {"room", Undefined}

DoorIds == {"r1", Undefined}

\* The worker's /invoke: a body without actorType or actorId is answered
\* 400 "actorType and actorId are required" by the worker itself; any other
\* body is forwarded to the Router's /route.
WorkerInvoke(s, actorType, actorId, payload) ==
  IF actorType = Undefined \/ actorId = Undefined
  THEN LET s0 == [s EXCEPT !.nCalls = @ + 1]
       IN  Settle(s0, s0.nCalls,
                  Reply(400, "actorType and actorId are required", 0,
                        ActorKey(actorType, actorId), -1))
  ELSE HandleRoute(s, actorType, actorId, payload)

\* sendToActor: an actor posts {actorType, actorId, payload} to the Router's
\* /route itself, with the id its handler was given.
SendToActor(s, actorType, actorId, payload) ==
  HandleRoute(s, actorType, actorId, payload)

WorkerCalled ==
  /\ nCalls < MaxCalls
  /\ \E actorType \in DoorTypes, actorId \in DoorIds, payload \in Payloads :
       Install(WorkerInvoke(St, actorType, actorId, payload))

ActorSent ==
  /\ nCalls < MaxCalls
  /\ \E actorId \in DoorIds, payload \in Payloads :
       Install(SendToActor(St, "room", actorId, payload))

NextDoor ==
  \/ WorkerCalled
  \/ ActorSent
  \/ InvokeRespondsCalm
  \/ JsonParsed
  \/ MetaWritten

SpecDoor == Init /\ [][NextDoor]_vars

\* ---------------------------------------------------------------- claims

\* the messageIds in the queue of key
QueuedIds(key) ==
  {actors[key].queue[i].messageId : i \in 1..Len(actors[key].queue)}

\* the invoke calls that are outstanding
Outstanding == {inflight[i] : i \in 1..Len(inflight)}

\* C1: per-key FIFO delivery.  messageIds are handed out in the order of the
\* route calls, so for one key a smaller id was enqueued earlier.  If two
\* messages m1 < m2 of one key have both been invoked, no invocation of m1
\* is outstanding: m1 was not invoked after m2, and every invocation of m1
\* had returned when m2's started.
C1_PerKeyFifo ==
  \A r1 \in invoked, r2 \in invoked :
    (r1.actorKey = r2.actorKey /\ r1.messageId < r2.messageId)
      => r1 \notin Outstanding

\* two messages of one key were invoked, the later one is outstanding
C1_Witness ==
  \E r1 \in invoked, r2 \in invoked :
    /\ r1.actorKey = r2.actorKey
    /\ r1.messageId < r2.messageId
    /\ r2 \in Outstanding

\* C2: no actor key ever has two outstanding invoke calls.
C2_OneInvokePerKey ==
  \A i \in 1..Len(inflight), j \in 1..Len(inflight) :
    i # j => inflight[i].actorKey # inflight[j].actorKey

\* an invoke is outstanding for a key that has another message queued behind
C2_Witness ==
  \E r \in Outstanding :
    /\ Len(actors[r.actorKey].queue) = 2
    /\ actors[r.actorKey].queue[1].messageId = r.messageId

\* C3: a key's queue, the head being invoked included, never holds more than
\* policy.queueLimit messages.
C3_QueueWithinLimit ==
  \A key \in DOMAIN actors :
    Len(actors[key].queue) <= actors[key].policy.queueLimit

\* a queue at its limit whose head is being invoked, after a refused request
C3_Witness ==
  \E r \in Outstanding :
    /\ Len(actors[r.actorKey].queue) = actors[r.actorKey].policy.queueLimit
    /\ \E c \in DOMAIN replies :
         replies[c].status = 429 /\ replies[c].actorKey = r.actorKey

\* the queue a key had before a step (empty if the step registered the key)
OldQueue(key) == IF key \in DOMAIN actors THEN actors[key].queue ELSE <<>>

\* a step answered the route call c, which had no answer before
NewlyAnswered == DOMAIN replies' \ DOMAIN replies

\* C4: a route call whose payload exceeds maxPayloadBytes is answered
\* PayloadTooLarge (413); a call answered so leaves every queue and the
\* pending table as they were; hence no queue ever holds a message whose
\* payload exceeds the limit.
C4_PayloadTooLarge ==
  [][ /\ \A key \in DOMAIN actors' :
           \A i \in 1..Len(actors'[key].queue) :
             PayloadSize(actors'[key].queue[i].payload)
               <= actors'[key].policy.maxPayloadBytes
      /\ \A c \in NewlyAnswered :
           LET r == replies'[c] IN
           /\ r.size > actors'[r.actorKey].policy.maxPayloadBytes
                => r.status = 413 /\ r.error = "Payload too large"
           /\ r.status = 413 =>
                /\ pendingResults' = pendingResults
                /\ \A key \in DOMAIN actors' :
                     actors'[key].queue = OldQueue(key)
                /\ drains' = drains /\ inflight' = inflight
    ]_vars

\* an oversized request was refused for a key with a message in its queue
\* and a caller waiting
C4_Witness ==
  \E c \in DOMAIN replies :
    /\ replies[c].status = 413
    /\ Len(actors[replies[c].actorKey].queue) > 0
    /\ QueuedIds(replies[c].actorKey) \cap pendingResults # {}

\* a step is a run of handleRoute
RouteStep == nCalls' = nCalls + 1

\* C5 (as amended): with queueLimit = Q, a route call is answered at once
\* with PayloadTooLarge if its payload is oversized; otherwise with QueueFull
\* (429), nothing changed, if the key's queue holds Q messages; otherwise it
\* is admitted: appended to the key's queue, with a pending entry.  So after
\* a message of a full queue has completed and been removed, the next
\* request with a fitting payload is admitted.
C5_QueueFull ==
  [][ RouteStep =>
      LET c == nCalls' IN
      IF c \in DOMAIN replies'
      THEN LET r == replies'[c]
               k == r.actorKey
           IN  \/ /\ r.status = 413
                  /\ r.size > actors'[k].policy.maxPayloadBytes
               \/ /\ r.status = 429 /\ r.error = "Queue is full"
                  /\ r.size <= actors'[k].policy.maxPayloadBytes
                  /\ k \in DOMAIN actors
                  /\ Len(actors[k].queue) = actors[k].policy.queueLimit
                  /\ actors' = actors
                  /\ pendingResults' = pendingResults
      ELSE \E k \in DOMAIN actors' :
             /\ Len(OldQueue(k)) < actors'[k].policy.queueLimit
             /\ Len(actors'[k].queue) = Len(OldQueue(k)) + 1
             /\ SubSeq(actors'[k].queue, 1, Len(OldQueue(k))) = OldQueue(k)
             /\ actors'[k].queue[Len(OldQueue(k)) + 1].messageId = c
             /\ c \in pendingResults'
    ]_vars

\* a request was refused QueueFull and a later request for the key is queued
C5_Witness ==
  \E c \in DOMAIN replies :
    /\ replies[c].status = 429
    /\ \E id \in QueuedIds(replies[c].actorKey) : id > c

\* C5 as stated: every route call that arrives while the key's queue holds
\* queueLimit messages is answered QueueFull.
C5_Original ==
  [][ RouteStep =>
      LET c == nCalls' IN
      \A k \in DOMAIN actors :
        ( /\ Len(actors[k].queue) = actors[k].policy.queueLimit
          /\ c \in DOMAIN replies'
          /\ replies'[c].actorKey = k )
        => replies'[c].status = 429
    ]_vars

\* the first queueLimit + 1 route calls all name key k and arrive before
\* any of them is answered: the step is the arrival of the last of them
LastOfConcurrentCalls(k) ==
  /\ k \in DOMAIN actors
  /\ nCalls = actors[k].policy.queueLimit
  /\ RouteStep
  /\ DOMAIN replies = {}
  /\ Len(actors[k].queue) = nCalls
  /\ \A i \in 1..nCalls : actors[k].queue[i].messageId = i
  /\ \/ nCalls' \in DOMAIN replies' /\ replies'[nCalls'].actorKey = k
     \/ \E i \in 1..Len(actors'[k].queue) :
          actors'[k].queue[i].messageId = nCalls'

\* the queueLimit + 1 concurrent calls have been made: the last was refused
ConcurrentCallsMade(k) ==
  /\ k \in DOMAIN actors
  /\ (actors[k].policy.queueLimit + 1) \in DOMAIN replies
  /\ replies[actors[k].policy.queueLimit + 1].status = 429
  /\ replies[actors[k].policy.queueLimit + 1].actorKey = k

\* C6: queueLimit + 1 route calls (three with queueLimit = 2) submitted
\* concurrently to one key with an empty queue, payloads within the limit,
\* under normal operation (SpecCalm).  The last call is answered QueueFull
\* and changes nothing; the others are never refused, each is answered with
\* the result of its own invocation, in submission order, and all of them
\* are answered.
C6_ConcurrentCalls ==
  /\ [][ \A k \in DOMAIN actors :
           LastOfConcurrentCalls(k) =>
             /\ nCalls' \in DOMAIN replies'
             /\ replies'[nCalls'].size <= actors[k].policy.maxPayloadBytes
                  => replies'[nCalls'].status = 429
             /\ actors' = actors
             /\ pendingResults' = pendingResults ]_vars
  /\ [](\A k \in DOMAIN actors :
          ConcurrentCallsMade(k) =>
            \A c \in 1..actors[k].policy.queueLimit :
              c \in DOMAIN replies =>
                /\ replies[c].status = 200
                /\ replies[c].result = c
                /\ replies[c].actorKey = k
                /\ \A b \in 1..(c - 1) : b \in DOMAIN replies)
  /\ \A k \in {ActorKey(t, i) : t \in ActorTypes, i \in ActorIds} :
       ConcurrentCallsMade(k) ~>
         (/\ k \in DOMAIN actors
          /\ \A c \in 1..actors[k].policy.queueLimit :
               c \in DOMAIN replies /\ replies[c].status = 200)

\* three concurrent calls with queueLimit = 2: the third refused, the first
\* two answered with success
C6_Witness ==
  /\ 3 \in DOMAIN replies /\ replies[3].status = 429
  /\ actors[replies[3].actorKey].policy.queueLimit = 2
  /\ 1 \in DOMAIN replies /\ replies[1].status = 200
  /\ 2 \in DOMAIN replies /\ replies[2].status = 200

\* a route caller that has been answered keeps the answer it got
AnswersKept ==
  \A c \in DOMAIN replies : c \in DOMAIN replies' /\ replies'[c] = replies[c]

\* the timer tm fires in this step while its route call is still pending
TimerFiredPending(tm) ==
  /\ tm \in timers /\ tm \notin timers'
  /\ tm.messageId \in pendingResults
  /\ drains' = drains

\* the messages of key that are in its queue before a step and not after
\* it leave as the head whose invocation has returned, or in the drain
\* that follows a reject continuation of the key
LeavesByDrainOnly(key) ==
  \A i \in 1..Len(actors[key].queue) :
    LET m == actors[key].queue[i] IN
    (\A j \in 1..Len(actors'[key].queue) :
        actors'[key].queue[j].messageId # m.messageId)
    => \E d \in drains :
         /\ d.actorKey = key
         /\ d \notin drains'
         /\ \/ /\ d.pc \in {"fetch", "json"}
               /\ d.message.messageId = m.messageId
               /\ i = 1
            \/ d.pc = "json" /\ d.body.mode = "reject"

\* C7 (as amended): when a route call's timer fires while the call is
\* pending, the pending entry is deleted and the caller is answered with
\* Processing timeout (504), and nothing else changes: the message keeps
\* its place in its queue.  A message, timed out or not, leaves its queue
\* only as the head whose invocation has returned or in the drain after a
\* reject continuation; and no caller's answer is ever replaced, so a result
\* that arrives after the timeout is discarded.
C7_Timeout ==
  [][ /\ \A tm \in timers :
           TimerFiredPending(tm) =>
             /\ pendingResults' = pendingResults \ {tm.messageId}
             /\ tm.messageId \in DOMAIN replies'
             /\ replies'[tm.messageId].status = 504
             /\ replies'[tm.messageId].error = "Processing timeout"
             /\ actors' = actors
             /\ inflight' = inflight
      /\ \A key \in DOMAIN actors : LeavesByDrainOnly(key)
      /\ AnswersKept
    ]_vars

\* a caller timed out, its message was invoked, has left the queue, and the
\* caller's answer is still the timeout
C7_Witness ==
  \E c \in DOMAIN replies :
    /\ replies[c].error = "Processing timeout"
    /\ [actorKey |-> replies[c].actorKey, messageId |-> c] \in invoked
    /\ c \notin QueuedIds(replies[c].actorKey)
    /\ \A tm \in timers : tm.messageId # c

\* C7 as stated: the message of a caller that timed out is still invoked;
\* so one that is no longer in its queue has been invoked.
C7_Original ==
  \A c \in DOMAIN replies :
    ( /\ replies[c].error = "Processing timeout"
      /\ c \notin QueuedIds(replies[c].actorKey) )
    => [actorKey |-> replies[c].actorKey, messageId |-> c] \in invoked

\* C8: the pending table holds exactly the admitted route calls that have
\* not been answered (one entry each); an entry is added only by the
\* admission of its call and, once removed, never comes back; its removal
\* is the moment its caller is answered, and the answer is never replaced
\* by a later event; with the timers firing, every entry is removed.
C8_PendingOnce ==
  /\ [](pendingResults = (1..nCalls) \ DOMAIN replies)
  /\ [][ /\ \A id \in pendingResults' \ pendingResults :
              RouteStep /\ id = nCalls'
         /\ \A id \in pendingResults \ pendingResults' :
              id \notin DOMAIN replies /\ id \in DOMAIN replies'
         /\ AnswersKept ]_vars
  /\ \A id \in 1..MaxCalls :
       (id \in pendingResults) ~> (id \notin pendingResults)

\* a call was rejected with a dispatch failure and its timer, left armed,
\* has fired since: the later event found no entry
C8_Witness ==
  \E c \in DOMAIN replies :
    /\ replies[c].error = "Actor DO error"
    /\ \A tm \in timers : tm.messageId # c
    /\ c \notin pendingResults

\* the queue q is an initial part of the queue r
IsPrefix(q, r) == Len(q) <= Len(r) /\ SubSeq(r, 1, Len(q)) = q

\* in this step the invoke call of coroutine d returns and the head message
\* it was made for leaves the queue without its body being read
DispatchFailed(d) ==
  /\ d \in drains /\ d.pc = "fetch" /\ d \notin drains'
  /\ \A j \in 1..Len(actors'[d.actorKey].queue) :
       actors'[d.actorKey].queue[j].messageId # d.message.messageId
  /\ \A d2 \in drains' : d2.pc # "json"

WaitApplied(d) ==
  d \in drains /\ d.pc = "json" /\ d.body.mode = "wait" /\ d \notin drains'

\* C10 (as amended): when an invocation of a key returns mode wait, its
\* message is removed and its caller, if pending, answered with the result;
\* no other message is removed, nobody is rejected and no message is invoked
\* in that step, the coroutine going to the metadata write of the key.
\* While it is there the remaining messages stay queued in order, and the
\* key is invoked again only in a later drain cycle, with the head of the
\* remaining messages.  The pause lasts for that cycle only: a message of a
\* key whose latest continuation was wait leaves the queue as the head whose
\* invocation has returned, whatever the outcome, or in the drain after a
\* reject continuation.
C10_WaitPauses ==
  [][ /\ \A d \in drains :
           WaitApplied(d) =>
             /\ actors'[d.actorKey].queue = Tail(actors[d.actorKey].queue)
             /\ \A k \in DOMAIN actors \ {d.actorKey} : actors'[k] = actors[k]
             /\ pendingResults' = pendingResults \ {d.message.messageId}
             /\ NewlyAnswered = pendingResults \cap {d.message.messageId}
             /\ \A c \in NewlyAnswered : replies'[c].status = 200
             /\ invoked' = invoked
             /\ inflight' = <<>>
             /\ \A d2 \in drains' :
                  d2.pc = "persist" /\ d2.actorKey = d.actorKey
             /\ actors'[d.actorKey].queue # <<>> => d.actorKey \in paused'
      /\ \A d \in drains :
           (d.pc = "persist" /\ d.exit = "wait") =>
             /\ IsPrefix(actors[d.actorKey].queue, actors'[d.actorKey].queue)
             /\ \A d2 \in drains' \ drains :
                  (d2.pc = "fetch" /\ d2.actorKey = d.actorKey) =>
                    /\ cycle' # cycle
                    /\ d2.message = Head(actors[d.actorKey].queue)
      /\ \A key \in paused : LeavesByDrainOnly(key)
    ]_vars

\* an invocation of a key returned wait with a message queued behind it, and
\* a later cycle is invoking that message with no continuation in between
C10_Witness ==
  \E r \in Outstanding :
    /\ r.actorKey \in paused
    /\ r.actorKey \in DOMAIN meta
    /\ meta[r.actorKey].queueLength > 0
    /\ \E c \in DOMAIN replies :
         /\ c < r.messageId
         /\ replies[c].actorKey = r.actorKey
         /\ replies[c].status = 200

\* C10 as stated: once an invocation of a key has returned wait, the queued
\* messages of the key stay in the queue, none removed and none rejected,
\* until an immediate or reject continuation of the key.
C10_Original ==
  [][ \A key \in paused :
        (~ \E d \in drains :
             /\ d.pc = "json" /\ d.actorKey = key /\ d \notin drains'
             /\ d.body.mode \in {"immediate", "reject"}) =>
          /\ IsPrefix(actors[key].queue, actors'[key].queue)
          /\ \A c \in NewlyAnswered \cap QueuedIds(key) :
               replies'[c].error \in {"none", "Processing timeout"}
    ]_vars

\* in this step the body read by coroutine d is handled and its nextPolicy
\* mode is reject
RejectApplied(d) ==
  d \in drains /\ d.pc = "json" /\ d.body.mode = "reject" /\ d \notin drains'

\* C11: when an invocation of a key returns mode reject, every message of the
\* key's queue leaves it in that step and none of them is invoked, then or
\* ever; the caller of the head, if pending, is answered 200 with the head's
\* result; the caller of every other message, if pending, is answered 504
\* Message rejected by actor; no other caller is answered and no other key's
\* state changes.  The coroutine goes to the metadata write of the key; a
\* route call for the key that arrives then, with the queue still empty, is
\* admitted unless its payload is oversized, and when the write has returned
\* the key is idle, or is being invoked for the head of its queue.
C11_RejectDrains ==
  [][ /\ \A d \in drains :
           RejectApplied(d) =>
             LET key == d.actorKey
                 head == d.message.messageId
                 rest == QueuedIds(key) \ {head}
             IN
             /\ actors'[key].queue = <<>>
             /\ \A k \in DOMAIN actors \ {key} : actors'[k] = actors[k]
             /\ invoked' = invoked
             /\ inflight' = <<>>
             /\ \A id \in rest : [actorKey |-> key, messageId |-> id] \notin invoked
             /\ pendingResults' = pendingResults \ QueuedIds(key)
             /\ NewlyAnswered = pendingResults \cap QueuedIds(key)
             /\ \A c \in NewlyAnswered \cap {head} :
                  replies'[c].status = 200 /\ replies'[c].result = head
             /\ \A c \in NewlyAnswered \cap rest :
                  /\ replies'[c].status = 504
                  /\ replies'[c].error = "Message rejected by actor"
             /\ \A d2 \in drains' :
                  d2.pc = "persist" /\ d2.actorKey = key /\ d2.exit = "reject"
      /\ \A d \in drains :
           (d.pc = "persist" /\ d.exit = "reject") =>
             /\ (RouteStep /\ actors[d.actorKey].queue = <<>>
                    /\ nCalls' \in DOMAIN replies'
                    /\ replies'[nCalls'].actorKey = d.actorKey) =>
                  replies'[nCalls'].status = 413
             /\ d \notin drains' =>
                  \/ ~actors'[d.actorKey].busy
                  \/ \E d2 \in drains' :
                       /\ d2.pc = "fetch" /\ d2.actorKey = d.actorKey
                       /\ d2.message = Head(actors[d.actorKey].queue)
      /\ \A r \in invoked : r \in invoked'
    ]_vars

\* messages queued behind a head whose invocation answered reject were
\* rejected, the head's caller has its result, and a route call made for
\* the key afterwards is being invoked
C11_Witness ==
  \E c \in DOMAIN replies :
    /\ replies[c].error = "Message rejected by actor"
    /\ \E h \in DOMAIN replies :
         /\ h < c
         /\ replies[h].actorKey = replies[c].actorKey
         /\ replies[h].status = 200
    /\ \E r \in Outstanding :
         r.actorKey = replies[c].actorKey /\ r.messageId > c

\* the message at the head of key's queue has not been invoked
HeadNotInvoked(key) ==
  /\ key \in DOMAIN actors
  /\ actors[key].queue # <<>>
  /\ [actorKey |-> key, messageId |-> Head(actors[key].queue).messageId]
       \notin invoked

\* C12 as stated: with every addressed call returning, the message at the
\* head of a key's queue is invoked, whatever the traffic to the other keys.
C12_Original ==
  \A k \in {ActorKey(t, i) : t \in ActorTypes, i \in ActorIds} :
    HeadNotInvoked(k) ~> ~HeadNotInvoked(k)

\* C13 as stated: a metadata record the Router stores for a key says
\* busy = false and has the queue length the key has when it is stored.
C13_Original ==
  [][ \A k \in DOMAIN meta' :
        (k \notin DOMAIN meta \/ meta'[k] # meta[k]) =>
          /\ meta'[k].busy = FALSE
          /\ meta'[k].queueLength = Len(actors[k].queue)
    ]_vars

\* a route call has named key: it is pending with its timer armed, or it
\* has been answered
Routed(key) ==
  \/ \E tm \in timers : tm.actorKey = key
  \/ \E c \in DOMAIN replies : replies[c].actorKey = key

\* in this step the body read by coroutine d, a 200 response, is handled
EnvelopeApplied(d) == d \in drains /\ d.pc = "json" /\ d \notin drains'

\* C14: in the step that handles a successful envelope, every spawn child
\* id whose key (the parent's actorType with the child id) has no state gets
\* one that is idle, with an empty queue and the parent's policy; a child
\* key that has a state keeps it, queue included; no message is enqueued
\* for a child; every invoke issued, in this step or any other, is for the
\* head of the key's queue, and only keys named by a route call are ever
\* invoked.
C14_SpawnRegisters ==
  [][ /\ \A d \in drains :
           EnvelopeApplied(d) =>
             \A i \in 1..Len(d.body.spawn) :
               LET childKey == ActorKey(d.actorKey[1], d.body.spawn[i]) IN
               /\ childKey \in DOMAIN actors'
               /\ childKey \notin DOMAIN actors =>
                    /\ actors'[childKey].busy = FALSE
                    /\ actors'[childKey].queue = <<>>
                    /\ actors'[childKey].policy = actors[d.actorKey].policy
               /\ (childKey \in DOMAIN actors /\ childKey # d.actorKey) =>
                    actors'[childKey] = actors[childKey]
               /\ (childKey \in DOMAIN actors /\ childKey = d.actorKey) =>
                    /\ actors'[childKey].policy = actors[childKey].policy
                    /\ \/ actors'[childKey].queue = Tail(actors[childKey].queue)
                       \/ d.body.mode = "reject" /\ actors'[childKey].queue = <<>>
      /\ \A r \in invoked' \ invoked :
           /\ r.actorKey \in DOMAIN actors'
           /\ actors'[r.actorKey].queue # <<>>
           /\ Head(actors'[r.actorKey].queue).messageId = r.messageId
      /\ \A k \in DOMAIN actors :
           ~RouteStep => Len(actors'[k].queue) <= Len(actors[k].queue)
      /\ \A r \in invoked : Routed(r.actorKey)
    ]_vars

\* a key registered by a spawn hint: it has a state, idle and empty, and no
\* route call has named it; it has not been invoked
C14_Witness ==
  \E k \in DOMAIN actors :
    /\ ~Routed(k)
    /\ actors[k].queue = <<>> /\ ~actors[k].busy
    /\ \A r \in invoked : r.actorKey # k
    /\ \E c \in DOMAIN replies : replies[c].status = 200

\* a status request with the prefix is answered in this step
StatusAnswered(c, prefix) ==
  c \in admin /\ c.op = "status" /\ c.prefix = prefix /\ c \notin admin'

\* live memory holds a state for the child id q1.  Route calls of SpecAdmin
\* name t1 only, so the state is there through the hint spawn: ["q1"] of
\* teacher:t1, and no drain cycle being under way it has ended.
SpawnedQ1 ==
  /\ \E k \in DOMAIN actors : k[2] = "q1"
  /\ drains = {}

\* the actor of the key was never invoked
NeverInvoked(key) == \A r \in invoked : r.actorKey # key

\* C15 as stated: once teacher:t1's handler has returned spawn ["q1"] and
\* the drain cycle is over, the answer to a status request with the prefix
\* "question:" lists question:q1 with queueLength 0 and busy false, and
\* question:q1 was never invoked.
C15_Original ==
  [][ \A c \in admin :
        (StatusAnswered(c, <<"question">>) /\ SpawnedQ1) =>
          /\ ActorKey("question", "q1") \in DOMAIN statusOut'.actors
          /\ statusOut'.actors[ActorKey("question", "q1")].queueLength = 0
          /\ statusOut'.actors[ActorKey("question", "q1")].busy = FALSE
          /\ NeverInvoked(ActorKey("question", "q1")) ]_vars

\* C15: once teacher:t1's handler has returned spawn ["q1"] and the drain
\* cycle is over, the answer to a status request with the prefix "teacher:"
\* lists teacher:q1, the key made of the parent's actorType and the child
\* id, from memory alone, with queueLength 0 and busy false, and teacher:q1
\* was never invoked; the answer to a status request with the prefix
\* "question:" lists nothing.
C15_SpawnScenario ==
  [][ \A c \in admin :
        /\ (StatusAnswered(c, <<"teacher">>) /\ SpawnedQ1) =>
             /\ ActorKey("teacher", "q1") \in DOMAIN statusOut'.actors
             /\ statusOut'.actors[ActorKey("teacher", "q1")].queueLength = 0
             /\ statusOut'.actors[ActorKey("teacher", "q1")].busy = FALSE
             /\ statusOut'.actors[ActorKey("teacher", "q1")].fromMemory
             /\ ~statusOut'.actors[ActorKey("teacher", "q1")].fromStorage
             /\ NeverInvoked(ActorKey("teacher", "q1"))
        /\ (StatusAnswered(c, <<"question">>) /\ SpawnedQ1) =>
             DOMAIN statusOut'.actors = {} ]_vars

\* a status request with the prefix "teacher:" was answered with teacher:q1
\* listed while teacher:t1 had been invoked
C15_Witness ==
  /\ statusOut.prefix = <<"teacher">>
  /\ ActorKey("teacher", "q1") \in DOMAIN statusOut.actors
  /\ ActorKey("teacher", "q1") \in DOMAIN actors
  /\ \E r \in invoked : r.actorKey = ActorKey("teacher", "t1")

\* C16: the answer to a status request holds one entry for each key that
\* begins with the prefix and is in the listing the request read from
\* storage or in live memory, and no other entry.  The entry of a key in
\* both has busy, queueLength and policy of the live state and says
\* fromStorage and fromMemory; the entry of a key in the listing alone has
\* the stored busy and queueLength and says fromStorage, not fromMemory; the
\* entry of a key in memory alone has the live values and says fromMemory,
\* not fromStorage.
C16_StatusMerge ==
  [][ \A c \in admin :
        (c.op = "status" /\ c \notin admin') =>
          LET out == statusOut'.actors IN
          /\ statusOut'.prefix = c.prefix
          /\ DOMAIN out = {k \in DOMAIN c.all \cup DOMAIN actors :
                             StartsWith(k, c.prefix)}
          /\ \A k \in DOMAIN out :
               /\ out[k].actorKey = k
               /\ out[k].fromStorage = (k \in DOMAIN c.all)
               /\ out[k].fromMemory = (k \in DOMAIN actors)
               /\ k \in DOMAIN actors =>
                    /\ out[k].busy = actors[k].busy
                    /\ out[k].queueLength = Len(actors[k].queue)
                    /\ out[k].policy = actors[k].policy
               /\ k \notin DOMAIN actors =>
                    /\ out[k].busy = c.all[k].busy
                    /\ out[k].queueLength = c.all[k].queueLength ]_vars

\* a status request was answered with an entry from storage and memory
\* whose busy is the live one, not the stored one, and an entry from memory
\* alone
C16_Witness ==
  \E k, h \in DOMAIN statusOut.actors :
    /\ statusOut.actors[k].fromStorage
    /\ statusOut.actors[k].fromMemory
    /\ k \in DOMAIN meta
    /\ statusOut.actors[k].busy # meta[k].busy
    /\ statusOut.actors[h].fromMemory
    /\ ~statusOut.actors[h].fromStorage

\* an admin-reset request returns in this step
ResetReturns == lastReset' # NoPrefix

\* C17 as stated: when adminReset(prefix) returns, the actor of every
\* listed key has been asked to reset and storage holds no metadata entry
\* under the prefix; the answer to a status request with the same prefix
\* that comes in right after the return has no entry with fromStorage.
C17_Original ==
  [][ /\ ResetReturns =>
           /\ resetOut'.requested = resetOut'.cleared
           /\ \A k \in DOMAIN meta' : ~StartsWith(k, lastReset')
      /\ \A c \in admin :
           (c.op = "status" /\ c \notin admin' /\ c.afterReset = c.prefix) =>
             \A k \in DOMAIN statusOut'.actors :
               ~statusOut'.actors[k].fromStorage ]_vars

\* a step of an admin-reset request: it comes in, or its coroutine resumes
ResetStep ==
  \/ \E c \in admin' \ admin : c.op = "reset"
  \/ \E c \in admin \ admin' : c.op = "reset"

C19_Original ==
  lastReset # NoPrefix =>
    \A k \in DOMAIN actors : ~StartsWith(k, lastReset)

\* C20 as stated: in one activation storage.get("memory") is called at
\* most once, every request works on the one object it produced, and the
\* value an /invoke request persists carries the mark of that request.
C20_Original ==
  /\ nReads <= 1
  /\ Len(heap) <= 1
  /\ \A r \in requests : r.pc \in {"handle", "put"} => r.ctx = memory
  /\ lastPut # NoPut => lastPut.by \in lastPut.marks

\* the /invoke request r returns its envelope in this step
EnvelopeReturned(r) == r \in requests /\ r.pc = "put" /\ r \notin requests'

\* C21 as stated: when an /invoke request returns its envelope, whether the
\* result in it is a business-level error or not, the value stored under
\* "memory" is the value of the object this.memory refers to.
C21_Original ==
  [][ \A r \in requests :
        EnvelopeReturned(r) =>
          /\ actorStorage'.present
          /\ actorStorage'.marks = MemoryOrEmpty' ]_vars

\* C22 as stated: when an /admin-reset of the actor returns, the stored
\* memory is deleted, this.memory is an empty object and this.initialized
\* is false; the memory a later /invoke request is given and the memory a
\* later /status request returns hold nothing of what memory and storage
\* held when the reset returned.
C22_Original ==
  [][ /\ \A r \in requests :
           (r.op = "reset" /\ r \notin requests') =>
             /\ ~actorStorage'.present
             /\ MemoryOrEmpty' = {}
             /\ ~initialized'
      /\ (lastStatus' # lastStatus /\ lastStatus'.by > actorReset'.at
            /\ actorReset'.at >= 0) =>
           lastStatus'.marks \cap actorReset'.marks = {}
      /\ \A r \in requests' :
           (r.id > actorReset'.at /\ actorReset'.at >= 0 /\ r.pc = "handle") =>
             heap'[r.ctx] \cap actorReset'.marks = {} ]_vars

\* C23: an /invoke request for an actorType without a handler returns an
\* envelope: the result is an error, nextPolicy is immediate and spawn is
\* empty, and the memory the request marked has been stored by then; the
\* handler-threw failure does not occur for it.  The Router, when it has
\* read that envelope, answers the caller that still waits with status 200
\* and the result of its own invocation, registers no child, removes the
\* message and, if the queue holds another, invokes it in the same step.
C23_UnknownActorType ==
  [][ /\ \A r \in requests :
           (r.op = "invoke" /\ r.actorType \notin HandlerTypes
              /\ \A q \in requests' : q.id # r.id) =>
             /\ r.pc = "put"
             /\ r.res = Res(TRUE, TRUE, "immediate", TRUE, <<>>)
             /\ actorStorage'.present
             /\ lastPut'.by = r.id
             /\ \E d \in drains' : d.pc = "json" /\ d.body.mode = "immediate"
                                    /\ d.body.spawn = <<>>
      /\ \A d \in drains :
           (EnvelopeApplied(d) /\ d.actorKey[1] \notin HandlerTypes) =>
             LET id == d.message.messageId
                 key == d.actorKey IN
             /\ DOMAIN actors' = DOMAIN actors
             /\ id \in pendingResults =>
                  /\ id \notin pendingResults'
                  /\ id \notin DOMAIN replies =>
                       /\ replies'[id].status = 200
                       /\ replies'[id].result = id
             /\ actors'[key].queue = Tail(actors[key].queue)
             /\ actors'[key].queue # <<>> =>
                  \E n \in drains' :
                    /\ n.pc = "fetch"
                    /\ n.actorKey = key
                    /\ n.message = Head(actors'[key].queue) ]_vars

\* two calls for ghost:a1 have been answered with status 200, each with
\* the result of its own invocation, and the actor's memory is stored
C23_Witness ==
  /\ \E c, e \in DOMAIN replies :
       /\ c # e
       /\ replies[c].actorKey = ActorKey("ghost", "a1")
       /\ replies[e].actorKey = ActorKey("ghost", "a1")
       /\ replies[c].status = 200
       /\ replies[e].status = 200
  /\ actorStorage.present
  /\ lastPut.by \in lastPut.marks

\* the request of a route call named both an actor type and an actor id
Addressed(key) == key[1] # Undefined /\ key[2] # Undefined

\* C24: a route call that lacks actorType or actorId is answered with a
\* validation error (status 400) and changes nothing: no ActorQueueState
\* exists for its key, no message of it is queued or pending (every armed
\* timeout belongs to an addressed call), and no invocation is made for it.
C24_Original ==
  /\ \A k \in DOMAIN actors : Addressed(k)
  /\ \A tm \in timers : Addressed(tm.actorKey)
  /\ \A d \in drains : d.pc = "fetch" => Addressed(d.actorKey)
  /\ \A c \in DOMAIN replies :
       ~Addressed(replies[c].actorKey) => replies[c].status = 400

\* the failure kind an answer reports, read from its error text
FailureKind(reply) ==
  CASE reply.error = "actorType and actorId are required" -> "validation"
    [] reply.error = "Payload too large"  -> "payload-too-large"
    [] reply.error = "Queue is full"      -> "queue-full"
    [] reply.error = "Processing timeout" -> "timeout"
    [] reply.error = "Actor DO error"     -> "dispatch-failure"
    [] OTHER                              -> "other"

FailureKinds ==
  {"validation", "payload-too-large", "queue-full", "timeout",
   "dispatch-failure"}

\* C25: an answer is a success (status 200) exactly when it carries no
\* error, and two failed answers of different kinds among validation,
\* payload-too-large, queue-full, timeout and dispatch-failure have different
\* statuses.
C25_Original ==
  /\ \A c \in DOMAIN replies :
       (replies[c].error = "none") <=> (replies[c].status = 200)
  /\ \A c, e \in DOMAIN replies :
       ( /\ FailureKind(replies[c]) \in FailureKinds
         /\ FailureKind(replies[e]) \in FailureKinds
         /\ FailureKind(replies[c]) # FailureKind(replies[e]) )
       => replies[c].status # replies[e].status

\* C26: the drain loop is single-flight.  At every suspension point at most
\* one drainLoop coroutine exists, and isDraining is set exactly when one
\* does.  A route call made while isDraining is set starts no cycle and
\* leaves the running coroutine and the outstanding invoke calls as they
\* are.  A step that starts a cycle while isDraining was set is not a route
\* call: it resumed the one coroutine, which ran to its end (normally or by
\* an exception), and the coroutine of the new cycle is the only one.
C26_SingleFlight ==
  [][ /\ Cardinality(drains') <= 1
      /\ isDraining' <=> drains' # {}
      /\ (isDraining /\ nCalls' # nCalls) =>
           /\ cycle' = cycle
           /\ isDraining'
           /\ drains' = drains
           /\ inflight' = inflight
      /\ (isDraining /\ cycle' # cycle) =>
           /\ nCalls' = nCalls
           /\ Cardinality(drains) = 1
           /\ \A d \in drains' : d.pc = "fetch"
    ]_vars

\* a cycle is processing one key while a message admitted meanwhile waits in
\* the queue of another key, which is idle
C26_Witness ==
  /\ isDraining
  /\ \E d \in drains :
       \E key \in DOMAIN actors :
         /\ key # d.actorKey
         /\ ~actors[key].busy
         /\ Len(actors[key].queue) > 0

\* key has messages queued and is not being processed
Waiting(key) ==
  /\ key \in DOMAIN actors
  /\ ~actors[key].busy
  /\ actors[key].queue # <<>>

\* C27 as stated: whenever no drain cycle is active every key's queue is
\* empty, and, with every addressed call returning, the messages waiting in
\* the queue of an idle key are eventually taken up (a message leaves its
\* queue only while its key is being processed).
C27_Original ==
  /\ [](~isDraining => \A key \in DOMAIN actors : actors[key].queue = <<>>)
  /\ \A key \in {ActorKey(t, i) : t \in ActorTypes, i \in ActorIds} :
       Waiting(key) ~> ~Waiting(key)

\* C28: keys are not processed concurrently.  In every state at most one
\* invoke call is outstanding, at most one key is busy, and the key of the
\* outstanding call is the busy one; a step that does not resume the cycle's
\* coroutine (a route call, a timeout) while a call is outstanding issues no
\* invoke call, for another key or the same.
C28_OneKeyAtATime ==
  [][ /\ Len(inflight') <= 1
      /\ Cardinality({key \in DOMAIN actors' : actors'[key].busy}) <= 1
      /\ \A r \in Outstanding' : actors'[r.actorKey].busy
      /\ (inflight # <<>> /\ drains' = drains) =>
           invoked' = invoked /\ inflight' = inflight
    ]_vars

\* an invoke call is outstanding for one key while messages wait, not
\* invoked, in the queue of another key
C28_Witness ==
  \E r \in Outstanding :
    \E key \in DOMAIN actors :
      /\ key # r.actorKey
      /\ Len(actors[key].queue) = 2
      /\ \A i \in 1..2 :
           [actorKey |-> key, messageId |-> actors[key].queue[i].messageId]
             \notin invoked

\* no key registered before position i has a message queued after the step
NoneQueuedBefore(i) ==
  \A j \in 1..(i - 1) : actors'[order'[j]].queue = <<>>

\* C29: the keys are kept in the order of their first registration, and a
\* drain cycle goes through them in that order.  A step in which the cycle's
\* coroutine goes on within the same cycle stays at its key or moves to a key
\* registered later, never back; it leaves a key only from the metadata
\* write that ends the key's processing, so the invocations of a key in one
\* cycle are contiguous and a key is visited once; and every key it passes
\* over has an empty queue.  A cycle that starts begins at the first key in
\* registration order that has a message queued.
C29_VisitOrder ==
  [][ /\ IsPrefix(order, order')
      /\ \A d \in drains, e \in drains' :
           LET i == IndexOf(order, d.actorKey)
               j == IndexOf(order', e.actorKey)
           IN
           (cycle' = cycle /\ e # d) =>
             /\ i <= j
             /\ i < j =>
                  /\ d.pc = "persist"
                  /\ e.pc = "fetch"
                  /\ \A l \in (i + 1)..(j - 1) :
                       actors'[order'[l]].queue = <<>>
      /\ \A e \in drains' :
           cycle' # cycle =>
             /\ e.pc = "fetch"
             /\ NoneQueuedBefore(IndexOf(order', e.actorKey))
    ]_vars

\* the cycle has gone on from the first key to the second and is invoking
\* it, while a message admitted since waits in the queue of the first
C29_Witness ==
  /\ Len(order) = 2
  /\ \E d \in drains :
       /\ d.pc = "fetch"
       /\ d.actorKey = order[2]
       /\ Waiting(order[1])
       /\ \E r \in invoked : r.actorKey = order[1]

\* C30: a key is busy only while a drainLoop coroutine is processing it.
\* Once the processing of a key has exited, whichever way (empty queue, wait,
\* reject, non-success response, an exception of the invoke call, of the
\* envelope handling or of the metadata write), no coroutine is at the key,
\* unless a new cycle has taken it up again, and its busy flag is clear.
C30_BusyReleased ==
  \A key \in DOMAIN actors :
    actors[key].busy => \E d \in drains : d.actorKey = key

\* the processing of a key ended by an exception after its caller was
\* answered (no metadata record was stored), and the key is idle
C30_Witness ==
  \E c \in DOMAIN replies :
    /\ replies[c].status = 200
    /\ replies[c].actorKey \notin DOMAIN meta
    /\ ~actors[replies[c].actorKey].busy
    /\ drains = {}

\* the message of route call id is in a queue
Queued(id) == \E key \in DOMAIN actors : id \in QueuedIds(key)

\* C31 as stated: a key that is busy is eventually released, and a message
\* that is queued is eventually invoked, whether or not the invoke call made
\* for the head message of a key ever returns.
C31_Original ==
  /\ \A key \in {ActorKey(t, i) : t \in ActorTypes, i \in ActorIds} :
       (key \in DOMAIN actors /\ actors[key].busy)
         ~> (key \in DOMAIN actors /\ ~actors[key].busy)
  /\ \A id \in 1..MaxCalls :
       Queued(id) ~> (\E r \in invoked : r.messageId = id)

\* in this step the body read by coroutine d is handled and its nextPolicy
\* mode is neither wait nor reject
ContinueApplied(d) ==
  /\ d \in drains /\ d.pc = "json" /\ d \notin drains'
  /\ d.body.mode \notin {"wait", "reject"}

\* C32: when an invocation of a key returns a mode other than wait and
\* reject, its message is removed and, if another message of the key is
\* queued, whenever it was enqueued, that message is invoked in the same step
\* and the same cycle, no other key being visited in between; with no
\* message left the coroutine goes to the metadata write of the key.
C32_ImmediateContinues ==
  [][ \A d \in drains :
        ContinueApplied(d) =>
          LET key == d.actorKey
              rest == Tail(actors[key].queue)
          IN
          /\ actors'[key].queue = rest
          /\ cycle' = cycle
          /\ actors'[key].busy
          /\ IF rest # <<>>
             THEN /\ drains' = {Drain("fetch", key, Head(rest), NoBody,
                                      NoSnap, "none")}
                  /\ inflight' = <<[actorKey |-> key,
                                    messageId |-> Head(rest).messageId]>>
                  /\ [actorKey |-> key, messageId |-> Head(rest).messageId]
                       \in invoked'
             ELSE /\ inflight' = <<>>
                  /\ \A d2 \in drains' :
                       d2.pc = "persist" /\ d2.actorKey = key
                         /\ d2.exit = "empty"
    ]_vars

\* a message enqueued while the invocation of the one before it was
\* outstanding is being invoked, the first one answered with success and the
\* key not having left its processing (no metadata written, never paused)
C32_Witness ==
  \E r \in Outstanding :
    /\ r.messageId = 2
    /\ 1 \in DOMAIN replies
    /\ replies[1].status = 200 /\ replies[1].actorKey = r.actorKey
    /\ r.actorKey \notin DOMAIN meta
    /\ r.actorKey \notin paused
    /\ [actorKey |-> r.actorKey, messageId |-> 1] \in invoked

\* the keys whose busy flag is set
BusyKeys == {key \in DOMAIN actors : actors[key].busy}

\* C33: a key is busy only while isDraining is set, and at most one key is
\* busy.  A step that starts a cycle from a route call finds every key idle;
\* a step that starts one at the end of the cycle before leaves busy only the
\* key the new cycle is invoking.
C33_BusyWithinCycle ==
  [][ /\ BusyKeys' # {} => isDraining'
      /\ \A k1 \in BusyKeys', k2 \in BusyKeys' : k1 = k2
      /\ cycle' # cycle =>
           /\ ~isDraining => BusyKeys = {}
           /\ \A key \in BusyKeys' :
                \E d \in drains' : d.pc = "fetch" /\ d.actorKey = key
    ]_vars

\* a cycle that started after the processing of a key had ended with its
\* metadata written is invoking a key, the only busy one, while the other
\* key is registered and idle
C33_Witness ==
  /\ isDraining
  /\ Cardinality(DOMAIN actors) = 2
  /\ Cardinality(BusyKeys) = 1
  /\ DOMAIN meta # {}
  /\ \E d \in drains : d.pc = "fetch" /\ d.actorKey \in BusyKeys

\* the places of the queued messages: key and position
AllQueued ==
  UNION {{<<key, i>> : i \in 1..Len(actors[key].queue)} : key \in DOMAIN actors}

\* C34: every messageId of the pending table is the id of a message that is
\* in some key's queue, and no two queued messages, of one key or of two,
\* have the same messageId.
C34_PendingAreQueued ==
  /\ \A id \in pendingResults : Queued(id)
  /\ \A p \in AllQueued, q \in AllQueued :
       actors[p[1]].queue[p[2]].messageId = actors[q[1]].queue[q[2]].messageId
         => p = q

\* a caller waits on a message queued behind a head whose own caller has
\* timed out, and on a message of the other key
C34_Witness ==
  \E key \in DOMAIN actors :
    /\ Len(actors[key].queue) = 2
    /\ actors[key].queue[1].messageId \notin pendingResults
    /\ actors[key].queue[2].messageId \in pendingResults
    /\ \E other \in DOMAIN actors \ {key} :
         QueuedIds(other) \cap pendingResults # {}

\* C35: correlation is exact.  A route call is answered with success only in
\* the step that handles the envelope of an invocation of its own message,
\* the head of the queue of the key the call named; the answer carries the
\* result of that invocation and that key, and no other call is answered
\* with success in the step.  In every state the successful answers carry
\* their own results, so no result is delivered to two callers.  A message
\* that has left its queue never comes back, so a caller whose message was
\* removed by a reject drain or a dispatch failure is never answered with
\* success; and the answer it got is kept.
C35_Correlation ==
  /\ [](\A c \in DOMAIN replies :
          replies[c].status = 200 => replies[c].result = c)
  /\ [][ /\ \A c \in NewlyAnswered :
              replies'[c].status = 200 =>
                /\ \E d \in drains :
                     /\ d.pc = "json" /\ d \notin drains'
                     /\ d.message.messageId = c
                     /\ replies'[c].actorKey = d.actorKey
                     /\ Head(actors[d.actorKey].queue).messageId = c
                /\ \E tm \in timers :
                     tm.messageId = c /\ tm.actorKey = replies'[c].actorKey
                /\ \A e \in NewlyAnswered : replies'[e].status = 200 => e = c
         /\ \A id \in 1..MaxCalls :
              (Queued(id)' /\ ~Queued(id)) => (RouteStep /\ id = nCalls')
         /\ \A c \in DOMAIN replies :
              replies[c].status # 200 =>
                c \in DOMAIN replies' /\ replies'[c].status # 200
       ]_vars

\* the caller of a head message timed out and the result of its invocation
\* was discarded; the caller of the message behind it has the result of its
\* own invocation
C35_Witness ==
  /\ 1 \in DOMAIN replies /\ replies[1].error = "Processing timeout"
  /\ [actorKey |-> replies[1].actorKey, messageId |-> 1] \in invoked
  /\ ~Queued(1)
  /\ 2 \in DOMAIN replies /\ replies[2].status = 200
  /\ replies[2].actorKey = replies[1].actorKey
  /\ replies[2].result = 2

\* C36: every route call gets exactly one response.  A call made is
\* eventually answered, the timers firing, whether or not the invoke call
\* for its message or for a message before it ever returns; the answer is a
\* success, PayloadTooLarge, QueueFull or a 504 from timeout, dispatch
\* failure or rejection; and an answer given is never replaced.
C36_OneResponse ==
  /\ \A c \in 1..MaxCalls : (nCalls >= c) ~> (c \in DOMAIN replies)
  /\ [](\A c \in DOMAIN replies :
          \/ replies[c].status = 200 /\ replies[c].error = "none"
          \/ replies[c].status = 413 /\ replies[c].error = "Payload too large"
          \/ replies[c].status = 429 /\ replies[c].error = "Queue is full"
          \/ /\ replies[c].status = 504
             /\ replies[c].error \in {"Processing timeout", "Actor DO error",
                                      "Message rejected by actor"})
  /\ [][ \A c \in DOMAIN replies :
           c \in DOMAIN replies' /\ replies'[c] = replies[c] ]_vars

\* two calls were answered by their timers, the one whose message is being
\* invoked by a call that has not returned and the one queued behind it
C36_Witness ==
  \E r \in Outstanding :
    /\ r.messageId \in DOMAIN replies
    /\ replies[r.messageId].error = "Processing timeout"
    /\ \E c \in DOMAIN replies :
         /\ c > r.messageId
         /\ replies[c].error = "Processing timeout"
         /\ replies[c].actorKey = r.actorKey
         /\ c \in QueuedIds(r.actorKey)

\* in this step the invoke call of coroutine d throws: the cycle ends while
\* the call is outstanding
ThrowStep(d) == d \in drains /\ d.pc = "fetch" /\ cycle' # cycle

\* the first key, in registration order, that has a message queued after the
\* step
FirstQueued ==
  order'[CHOOSE i \in 1..Len(order') :
           /\ actors'[order'[i]].queue # <<>>
           /\ \A j \in 1..(i - 1) : actors'[order'[j]].queue = <<>>]

\* what the step of a throwing invoke call does: no queue changes, no caller
\* is answered and no pending entry removed, no metadata is written, and a
\* new cycle starts at once, invoking the head of the first key that has a
\* message queued: the same message again if that is the key of the call
\* that threw, which is then the only busy key
ThrowEffects(d) ==
  /\ \A key \in DOMAIN actors : actors'[key].queue = actors[key].queue
  /\ d.message.messageId \in thrown'
  /\ pendingResults' = pendingResults
  /\ replies' = replies
  /\ meta' = meta
  /\ isDraining'
  /\ drains' = {Drain("fetch", FirstQueued, Head(actors'[FirstQueued].queue),
                      NoBody, NoSnap, "none")}
  /\ FirstQueued = d.actorKey => drains' = {d}
  /\ \A key \in DOMAIN actors' : actors'[key].busy <=> key = FirstQueued

\* C37 (as amended): when the invoke call for a head message throws, the
\* effects are those of ThrowEffects; as long as the message is queued every
\* invoke call for its key is for it, so it can be invoked more than once;
\* and its caller is answered only by its timeout or by the outcome of a
\* later invocation of it: the success, or the dispatch failure when that
\* invocation returns a non-success status.
C37_ThrowRetries ==
  [][ /\ \A d \in drains : ThrowStep(d) => ThrowEffects(d)
      /\ \A d \in drains' :
           (d.pc = "fetch" /\ Head(actors'[d.actorKey].queue).messageId \in thrown')
             => d.message = Head(actors'[d.actorKey].queue)
      /\ \A c \in NewlyAnswered \cap thrown :
           \/ replies'[c].error = "Processing timeout"
           \/ /\ replies'[c].status = 200
              /\ \E d \in drains : d.pc = "json" /\ d.message.messageId = c
           \/ /\ replies'[c].error = "Actor DO error"
              /\ \E d \in drains : d.pc = "fetch" /\ d.message.messageId = c
    ]_vars

\* the invoke call for a message threw, the message is being invoked again
\* and its caller is still waiting
C37_Witness ==
  \E r \in Outstanding :
    /\ r.messageId \in thrown
    /\ r.messageId \in pendingResults
    /\ Head(actors[r.actorKey].queue).messageId = r.messageId

\* C37 as stated: the same effects of the throwing call, and the caller of
\* its message is answered only by a later success or by its timeout.
C37_Original ==
  [][ /\ \A d \in drains : ThrowStep(d) => ThrowEffects(d)
      /\ \A c \in NewlyAnswered \cap thrown :
           \/ replies'[c].error = "Processing timeout"
           \/ replies'[c].status = 200
    ]_vars

\* every route call that has named key was refused PayloadTooLarge, and key
\* has a state
RefusedOnly(key) ==
  /\ key \in DOMAIN actors
  /\ \A tm \in timers : tm.actorKey # key
  /\ \E c \in DOMAIN replies : replies[c].actorKey = key
  /\ \A c \in DOMAIN replies :
       replies[c].actorKey = key => replies[c].status = 413

\* C38: a route call refused with PayloadTooLarge or QueueFull registers no
\* pending entry, arms no timer, starts no drain cycle, issues no invoke call
\* and changes no state of a key that had one; the key it names has a state
\* afterwards, which, if it had none, is new, idle and empty with the default
\* policy and the last in the order.  A status request whose prefix admits a
\* key that only refused calls have named answers with an entry for it that
\* says fromMemory and not fromStorage, with queueLength 0 and busy false.
C38_RefusedFrame ==
  [][ /\ \A c \in NewlyAnswered :
           replies'[c].status \in {413, 429} =>
             LET key == replies'[c].actorKey IN
             /\ RouteStep /\ c = nCalls'
             /\ pendingResults' = pendingResults
             /\ timers' = timers
             /\ isDraining' = isDraining /\ cycle' = cycle
             /\ drains' = drains /\ inflight' = inflight
             /\ invoked' = invoked
             /\ meta' = meta
             /\ \A k \in DOMAIN actors : actors'[k] = actors[k]
             /\ DOMAIN actors' = DOMAIN actors \cup {key}
             /\ key \notin DOMAIN actors =>
                  /\ replies'[c].status = 413
                  /\ actors'[key] = NewActorState(DefaultPolicy)
                  /\ order' = Append(order, key)
             /\ key \in DOMAIN actors => order' = order
      /\ \A c \in admin :
           (c.op = "status" /\ c \notin admin') =>
             \A key \in DOMAIN actors :
               (RefusedOnly(key) /\ StartsWith(key, c.prefix)) =>
                 /\ key \in DOMAIN statusOut'.actors
                 /\ statusOut'.actors[key].fromMemory
                 /\ ~statusOut'.actors[key].fromStorage
                 /\ statusOut'.actors[key].queueLength = 0
                 /\ ~statusOut'.actors[key].busy
    ]_vars

\* a status answer lists, from memory alone, a key that only a refused call
\* has named, beside a key that has a message queued
C38_Witness ==
  \E key \in DOMAIN statusOut.actors :
    /\ RefusedOnly(key)
    /\ statusOut.actors[key].fromMemory
    /\ ~statusOut.actors[key].fromStorage
    /\ \E other \in DOMAIN actors : actors[other].queue # <<>>

\* the caller of the message of route call id has timed out
TimedOut(id) ==
  id \in DOMAIN replies /\ replies[id].error = "Processing timeout"

\* admission counts every queued message, whether its caller still waits or
\* not: a call with a fitting payload is refused QueueFull exactly when the
\* queue of its key holds queueLimit messages, and the firing of a timer
\* changes no queue
CountsForAdmission ==
  /\ RouteStep =>
       LET c == nCalls' IN
       \A key \in DOMAIN actors' :
         /\ (c \in DOMAIN replies' /\ replies'[c].status = 429
               /\ replies'[c].actorKey = key) =>
              /\ key \in DOMAIN actors
              /\ Len(actors[key].queue) >= actors[key].policy.queueLimit
         /\ (c \in QueuedIds(key)') =>
              Len(OldQueue(key)) < actors'[key].policy.queueLimit
  /\ \A tm \in timers : TimerFiredPending(tm) => actors' = actors

\* C39 (as amended): a message whose caller has timed out stays in its queue
\* and counts for admission until it is removed, which happens as for any
\* message: as the head whose invocation has returned, or, not invoked, in
\* the drain after a reject continuation of its key.  So a route call is
\* answered QueueFull also when no message of the queue has a pending entry.
C39_DeadMessagesCount ==
  [][ /\ CountsForAdmission
      /\ \A key \in DOMAIN actors :
           (\E id \in QueuedIds(key) : TimedOut(id)) => LeavesByDrainOnly(key)
    ]_vars

\* a route call was refused QueueFull by a queue at its limit in which no
\* message has a pending entry, every caller having timed out
C39_Witness ==
  \E c \in DOMAIN replies :
    LET key == replies[c].actorKey IN
    /\ replies[c].status = 429
    /\ Len(actors[key].queue) = actors[key].policy.queueLimit
    /\ QueuedIds(key) \cap pendingResults = {}
    /\ \A id \in QueuedIds(key) : id < c /\ TimedOut(id)

\* C39 as stated: a message whose caller has timed out counts for admission
\* until it is invoked and removed: when it leaves its queue it has been
\* invoked.
C39_Original ==
  [][ /\ CountsForAdmission
      /\ \A key \in DOMAIN actors :
           \A id \in QueuedIds(key) :
             (TimedOut(id) /\ id \notin QueuedIds(key)') =>
               [actorKey |-> key, messageId |-> id] \in invoked
    ]_vars

====
